---- MODULE Spec2Model ----
(***************************************************************************)
(* Weekly DNS-bypass report mailer (kelechiP/lamda-s3-email).              *)
(*                                                                         *)
(* The run modelled here is lambda_handler of src/lambda2.py (second       *)
(* script of that file, lines 337-432: validation, recipient map, agency   *)
(* discovery, S3 scan) followed by the e-mail section of                   *)
(* src/current_lambda_new_feature.py ("drop-in section after S3 scanning   *)
(* is complete": outage notice, REPORT loop, per-agency NO DATA loop,      *)
(* default missing list, return).  Delivery is send_email_with_failover    *)
(* of src/lambda2.py.                                                      *)
(*                                                                         *)
(* Strings are abstracted: an agency folder "agency=<n>" / "<n>" is the    *)
(* record [ns |-> TRUE/FALSE, id |-> n]; an address is a short string; a   *)
(* file is identified by its agency and its position in discovery order.   *)
(***************************************************************************)
EXTENDS Integers, Sequences, FiniteSets, TLC

\* ------------------------------------------------------------------ bounds
MaxAgencies == 2      \* agency folders that can exist under the ranked root
MaxLeaves == 1        \* leaf partitions listed for one agency under one root
MaxFiles == 1         \* objects listed for one agency under one root

\* ----------------------------------------------------------- small helpers
RECURSIVE Flatten(_)
Flatten(ls) == IF ls = <<>> THEN <<>> ELSE Head(ls) \o Flatten(Tail(ls))

SeqsUpTo(S, n) == UNION {[1..k -> S] : k \in 0..n}

RECURSIVE MapSeq(_, _)
MapSeq(F(_), s) == IF s = <<>> THEN <<>> ELSE <<F(Head(s))>> \o MapSeq(F, Tail(s))

Range(s) == {s[k] : k \in DOMAIN s}

\* -------------------------------------------------------------- the store
\* Folder i of the ranked root: "agency=<i>" for odd i, a bare "<i>" otherwise.
Folder(i) == [ns |-> (i % 2 = 1), id |-> i]
NoAgency == [ns |-> FALSE, id |-> 0]

\* The folders of S with namespace flag ns, by ascending id from k on.
RECURSIVE FoldersFrom(_, _, _)
FoldersFrom(S, k, ns) ==
    IF k > MaxAgencies THEN <<>>
    ELSE (IF k \in S /\ Folder(k).ns = ns THEN <<Folder(k)>> ELSE <<>>)
         \o FoldersFrom(S, k + 1, ns)

\* src/lambda2.py:251-257 : the common prefixes in the order the listing
\* returns them, the ascending byte order of the keys: a bare "<i>" (a digit)
\* comes before every "agency=<i>" (a letter); ids are single digits.
Ascending(S, k) == FoldersFrom(S, k, FALSE) \o FoldersFrom(S, k, TRUE)

\* Objects a listing can return below a leaf prefix.
\* tokens: which of "DIPS" / "SIPS" occur in the key below the agency prefix.
\* name_tokens (ranked objects): which of them occur in the last path segment,
\* the file name; a token of a directory name ("ip_field=DIPS/", the layout of
\* src/lambda_new.py:99) is in tokens only.
\* body: the decoded characters of the object, "t" a visible character, "SP" a
\* space, "CR" and "LF" the two line-ending characters.
RankedObjects ==
    {[suffix |-> ".csv", body |-> <<"t">>, tokens |-> {"DIPS"}, name_tokens |-> {}],
     [suffix |-> ".CSV", body |-> <<"t">>, tokens |-> {"DIPS"}, name_tokens |-> {}],
     [suffix |-> ".txt", body |-> <<"t">>, tokens |-> {"DIPS"}, name_tokens |-> {}]}
SummaryObjects == {[suffix |-> ".txt", body |-> <<"t">>, tokens |-> {"DIPS"}],
                   [suffix |-> ".TXT", body |-> <<"SP", "LF">>, tokens |-> {"SIPS"}],
                   [suffix |-> ".csv", body |-> <<"t">>, tokens |-> {"DIPS"}]}

\* The leaf listings of one agency under one root, in traversal order
\* (channel, ip-version, ip-field), each leaf with its objects: no leaf at all,
\* one empty leaf, or leaves that each hold objects.
LeafListings(Objs) ==
    {<<>>, <<<<>>>>} \cup
    {ls \in SeqsUpTo(SeqsUpTo(Objs, MaxFiles) \ {<<>>}, MaxLeaves) :
        Len(Flatten(ls)) <= MaxFiles}

Lower(suffix) ==
    CASE suffix = ".CSV" -> ".csv"
      [] suffix = ".TXT" -> ".txt"
      [] OTHER -> suffix

\* src/lambda2.py:260-268
list_keys_with_suffix(objs, suffix) ==
    SelectSeq(objs, LAMBDA o : Lower(o.suffix) = Lower(suffix))

\* body.replace("\r\n", "\n") : every CR LF pair, left to right, becomes one LF
RECURSIVE ReplaceCRLF(_)
ReplaceCRLF(b) ==
    IF b = <<>> THEN <<>>
    ELSE IF Len(b) >= 2 /\ b[1] = "CR" /\ b[2] = "LF"
         THEN <<"LF">> \o ReplaceCRLF(Tail(Tail(b)))
         ELSE <<Head(b)>> \o ReplaceCRLF(Tail(b))

\* .replace("\r", "\n")
ReplaceCR(b) == [k \in DOMAIN b |-> IF b[k] = "CR" THEN "LF" ELSE b[k]]

Whitespace == {"SP", "CR", "LF"}

\* .strip() : leading and trailing whitespace is removed
RECURSIVE LStrip(_)
LStrip(b) == IF b # <<>> /\ Head(b) \in Whitespace THEN LStrip(Tail(b)) ELSE b
RECURSIVE RStrip(_)
RStrip(b) ==
    IF b # <<>> /\ b[Len(b)] \in Whitespace THEN RStrip(SubSeq(b, 1, Len(b) - 1)) ELSE b
Strip(b) == RStrip(LStrip(b))

\* Variant: the text is not stripped.
read_text_file_unstripped(o) == ReplaceCR(ReplaceCRLF(o.body))

\* src/lambda2.py:271-273
read_text_file(o) == Strip(ReplaceCR(ReplaceCRLF(o.body)))

\* ------------------------------------------------------------ recipients
\* An address is <<kind, n>>; Blank is a string that is empty once stripped.
ExplicitAddr(i) == <<"dl", i>>
TestAddr(i) == <<"test", i>>
DefaultAddr == <<"default", 0>>
Blank == <<"", 0>>

\* Raw JSON values of the recipient document, per key: a list of strings,
\* one string (v has one element), or a value of another type.
RawValues(i) ==
    IF i = 1
    THEN {[t |-> "list", v |-> <<ExplicitAddr(i)>>],
          [t |-> "list", v |-> <<Blank, ExplicitAddr(i)>>],
          [t |-> "list", v |-> <<>>],
          [t |-> "str", v |-> <<ExplicitAddr(i)>>],
          [t |-> "str", v |-> <<Blank>>],
          [t |-> "other", v |-> <<ExplicitAddr(i)>>]}
    ELSE {[t |-> "list", v |-> <<ExplicitAddr(i)>>]}

RawMaps ==
    UNION {{m \in [{Folder(i) : i \in D} -> UNION {RawValues(i) : i \in D}] :
               \A i \in D : m[Folder(i)] \in RawValues(i)}
           : D \in SUBSET (1..MaxAgencies)}

\* str(x).strip() : a raw element <<text, n>> may carry a third component, the
\* surrounding whitespace of a string ("padded") or the mark of a number
\* ("int"); its stripped text is <<text, n>>.
StrStrip(x) == <<x[1], x[2]>>

\* Variant: blank elements of a list are kept.
NormalizeValueKeepBlanks(rv) ==
    CASE rv.t = "list" -> MapSeq(StrStrip, rv.v)
      [] rv.t = "str" -> IF StrStrip(rv.v[1]) # Blank THEN <<StrStrip(rv.v[1])>> ELSE <<>>
      [] OTHER -> <<>>

\* src/lambda2.py:213-221
NormalizeValue(rv) ==
    CASE rv.t = "list" -> SelectSeq(MapSeq(StrStrip, rv.v), LAMBDA x : x # Blank)
      [] rv.t = "str" -> IF StrStrip(rv.v[1]) # Blank THEN <<StrStrip(rv.v[1])>> ELSE <<>>
      [] OTHER -> <<>>
NormalizeMap(raw) == [k \in DOMAIN raw |-> NormalizeValue(raw[k])]

EmptyMap == [k \in {} |-> <<>>]
TestMaps == {EmptyMap, [k \in {Folder(1)} |-> <<Blank, TestAddr(1)>>]}

\* ------------------------------------------------------------------ dates
\* A moment is <<day, part>>: day counts the days from a Monday (day 0), part
\* is the time of day. A string is <<text, n>>; a formatted date is <<"date", day>>.
MaxDays == 7          \* consecutive days on which a run can start
FirstDay == 28
NoneValue == <<"None", 0>>
EmptyStr == <<"", 0>>
Unresolved == <<"unresolved", 0>>
NoEvent == [start_date |-> NoneValue, mode |-> "None", days_ago |-> NoneValue]

\* today.weekday() : 0 on a Monday
weekday(t) == t[1] % 7
\* t - timedelta(days=n)
MinusDays(t, n) == <<t[1] - n, t[2]>>
\* strftime("%Y-%m-%d") : the time of day is dropped
strftime(t) == <<"date", t[1]>>

\* src/lambda2.py:161-163
monday_two_weeks_ago(t) == strftime(MinusDays(MinusDays(t, weekday(t)), 14))

\* src/lambda2.py:166-167
exact_days_ago(t, days) == strftime(MinusDays(t, days))

\* bool(x) of an event field: None and the empty string are falsy
Truthy(x) == x # NoneValue /\ x # EmptyStr

\* Variant: the default is the Monday two weeks ago on every weekday.
resolve_start_date_weekly(ev, t) ==
    IF Truthy(ev.start_date) THEN ev.start_date
    ELSE IF ev.mode = "weekly" THEN monday_two_weeks_ago(t)
    ELSE IF ev.days_ago # NoneValue THEN exact_days_ago(t, ev.days_ago[2])
    ELSE monday_two_weeks_ago(t)

\* src/lambda2.py:170-183 ; int(days_ago) of <<kind, n>> is n
resolve_start_date(ev, t) ==
    IF Truthy(ev.start_date) THEN ev.start_date
    ELSE IF ev.mode = "weekly" THEN monday_two_weeks_ago(t)
    ELSE IF ev.days_ago # NoneValue THEN exact_days_ago(t, ev.days_ago[2])
    ELSE IF weekday(t) = 0 THEN monday_two_weeks_ago(t) ELSE exact_days_ago(t, 14)

VARIABLES
    MAIL_FROM, SMTP_HOST_1, SMTP_HOST_2, prefixes_ok,
    DEFAULT_EMAIL_TO_LIST, TEST_MODE, TEST_EMAIL_MAP, email_list_location,
    pc, active_map, agencies, idx,
    agency_attachments, attachment_keys, agency_summary_text,
    agencies_no_ranked, agencies_no_summary,
    sent_reports, sent_agency_no_data, sent_default_missing_list,
    attempts, last_send, result, error, store_calls, map_load, report_body,
    email_doc, leafless, summary_listing,
    event, today, TEST_START_DATE, start_date, summary_only

config == <<MAIL_FROM, SMTP_HOST_1, SMTP_HOST_2, prefixes_ok,
            DEFAULT_EMAIL_TO_LIST, TEST_MODE, TEST_EMAIL_MAP, email_list_location,
            event, today, TEST_START_DATE, summary_only>>
scanned == <<agencies, agency_attachments, attachment_keys, agency_summary_text,
             agencies_no_ranked, agencies_no_summary>>
counters == <<sent_reports, sent_agency_no_data, sent_default_missing_list>>
vars == <<config, pc, active_map, idx, scanned, counters,
          attempts, last_send, result, error, store_calls, map_load, report_body,
          email_doc, leafless, summary_listing, start_date>>

NoSend == [tried |-> <<>>, outcome |-> <<>>, success |-> FALSE, errors |-> <<>>, host_used |-> ""]
NoResult == [status |-> "none"]
NoBody == <<>>
NoDoc == [kind |-> "none", raw |-> EmptyMap]

\* Everything but the invocation event, the clock and the forced test date.
InitRun ==
    /\ MAIL_FROM \in {"", "sender"}
    /\ SMTP_HOST_1 \in {"", "host1"}
    /\ SMTP_HOST_2 \in {"", "host2"}
    /\ prefixes_ok \in {<<TRUE, TRUE, TRUE>>, <<FALSE, TRUE, TRUE>>,
                        <<TRUE, FALSE, TRUE>>, <<TRUE, TRUE, FALSE>>}
    /\ DEFAULT_EMAIL_TO_LIST \in {<<>>, <<DefaultAddr>>}
    /\ TEST_MODE \in BOOLEAN
    /\ TEST_EMAIL_MAP \in TestMaps
    /\ email_list_location \in {"", "s3key"}
    /\ pc = "validate"
    /\ active_map = EmptyMap
    /\ agencies = <<>>
    /\ idx = 1
    /\ agency_attachments = [f \in {} |-> <<>>]
    /\ attachment_keys = <<>>
    /\ agency_summary_text = [f \in {} |-> <<>>]
    /\ agencies_no_ranked = <<>>
    /\ agencies_no_summary = <<>>
    /\ sent_reports = 0
    /\ sent_agency_no_data = 0
    /\ sent_default_missing_list = 0
    /\ attempts = <<>>
    /\ last_send = NoSend
    /\ result = NoResult
    /\ error = "none"
    /\ store_calls = {}
    /\ map_load = "not_loaded"
    /\ report_body = NoBody
    /\ email_doc = NoDoc
    /\ leafless = {}
    /\ summary_listing = [f \in {} |-> <<>>]
    /\ start_date = Unresolved

\* A run with at most the first relay configured, invoked without event
\* fields on a Wednesday, no test date forced, in a store where every agency
\* folder of the summary root is under the ranked root too.
Init ==
    /\ InitRun
    /\ SMTP_HOST_2 = ""
    \* the settings of the unused recipient source are fixed
    /\ TEST_MODE => email_list_location = ""
    /\ ~TEST_MODE => TEST_EMAIL_MAP # EmptyMap
    /\ event = NoEvent
    /\ today = <<FirstDay + 2, 0>>
    /\ TEST_START_DATE = EmptyStr
    /\ summary_only = {}

Abort(e) ==
    /\ pc' = "aborted"
    /\ error' = e

\* Variant: the prefixes are not validated.
ValidationErrorNoPrefixes ==
    IF MAIL_FROM = "" THEN "ValueError: MAIL_FROM"
    ELSE IF SMTP_HOST_1 = "" /\ SMTP_HOST_2 = "" THEN "ValueError: SMTP_HOST"
    ELSE "none"

\* src/lambda2.py:359-366 : the first failing check, "none" when all pass
ValidationError ==
    IF MAIL_FROM = "" THEN "ValueError: MAIL_FROM"
    ELSE IF SMTP_HOST_1 = "" /\ SMTP_HOST_2 = "" THEN "ValueError: SMTP_HOST"
    ELSE IF \E k \in 1..3 : ~prefixes_ok[k] THEN "ValueError: prefixes"
    ELSE "none"

\* src/lambda2.py:186-191
resolve_effective_start_date(ev, t) ==
    IF TEST_MODE /\ TEST_START_DATE # EmptyStr THEN TEST_START_DATE
    ELSE resolve_start_date(ev, t)

\* src/lambda2.py:337-366 : the date is resolved, then the settings are checked
Validate ==
    /\ pc = "validate"
    /\ start_date' = resolve_effective_start_date(event, today)
    /\ IF ValidationError # "none" THEN Abort(ValidationError)
       ELSE pc' = "load_map" /\ error' = error
    /\ UNCHANGED <<config, active_map, idx, scanned, counters, attempts, last_send,
                   result, store_calls, map_load, report_body, email_doc, leafless, summary_listing>>

\* src/lambda2.py:201-221 : the document found at the configured location.
S3EmailDocs ==
    {[kind |-> k, raw |-> EmptyMap] : k \in {"unreachable", "malformed", "non_object"}}
    \cup {[kind |-> "object", raw |-> m] : m \in RawMaps}

\* Variant: a failing load is swallowed and the default mapping is used.
load_json_or_default(doc) ==
    IF email_list_location = "" \/ doc.kind # "object"
    THEN [raised |-> FALSE, map |-> EmptyMap]
    ELSE [raised |-> FALSE, map |-> NormalizeMap(doc.raw)]

load_json_from_s3_bucket_key(doc) ==
    IF email_list_location = "" THEN [raised |-> FALSE, map |-> EmptyMap]
    ELSE IF doc.kind # "object" THEN [raised |-> TRUE, map |-> EmptyMap]
    ELSE [raised |-> FALSE, map |-> NormalizeMap(doc.raw)]

\* src/lambda2.py:200-204 : the object is fetched only when a location is set
MapLoadCalls == IF email_list_location = "" THEN {} ELSE {"get_object:map"}

\* What the handler found when it asked for the production map: no location
\* set (202-204), or the kind of document at the location (206-211).
LoadOutcome(doc) ==
    IF email_list_location = "" THEN "location_not_set"
    ELSE IF doc.kind = "object" THEN "loaded" ELSE doc.kind

\* Variant: an empty production map is replaced by the test map.
get_active_email_map_or_test(prod_map) ==
    IF TEST_MODE \/ prod_map = EmptyMap THEN TEST_EMAIL_MAP ELSE prod_map

\* src/lambda2.py:224-225
get_active_email_map(prod_map) == IF TEST_MODE THEN TEST_EMAIL_MAP ELSE prod_map

\* src/lambda2.py:368-376, for the document drawn from Docs; email_doc
\* remembers the document that was fetched where keep asks for it.
LoadMapFrom(Docs, keep) ==
    /\ pc = "load_map"
    /\ IF TEST_MODE
       THEN /\ active_map' = get_active_email_map(EmptyMap)
            /\ pc' = "discover"
            /\ error' = error
            /\ store_calls' = store_calls
            /\ map_load' = "test_env"
            /\ email_doc' = email_doc
       ELSE \E doc \in Docs :
              LET r == load_json_from_s3_bucket_key(doc) IN
              /\ store_calls' = store_calls \cup MapLoadCalls
              /\ map_load' = LoadOutcome(doc)
              /\ email_doc' = IF keep /\ email_list_location # "" THEN doc ELSE email_doc
              /\ IF r.raised
                 THEN Abort("recipient map error") /\ active_map' = active_map
                 ELSE /\ active_map' = get_active_email_map(r.map)
                      /\ pc' = "discover"
                      /\ error' = error
    /\ UNCHANGED <<config, start_date, idx, scanned, counters, attempts, last_send, result,
                   report_body, leafless, summary_listing>>

\* src/lambda2.py:368-376
LoadMap == LoadMapFrom(S3EmailDocs, FALSE)

\* Variant: the agency folders of both roots are taken.
FoldersOfBothRoots(S) == S \cup summary_only

\* src/lambda2.py:379 : the folders the listing of the ranked root returns,
\* for a store with the folders S under the ranked root
DiscoveredFolders(S) == S

\* src/lambda2.py:378-380 : one listing of the ranked root; summary_only are
\* the folders that exist under the summary root alone
Discover ==
    /\ pc = "discover"
    /\ \E S \in SUBSET ((1..MaxAgencies) \ summary_only) :
         /\ agencies' = Ascending(DiscoveredFolders(S), 1)
         /\ pc' = IF agencies' = <<>> THEN "email" ELSE "scan_ranked"
    /\ idx' = 1
    /\ store_calls' = store_calls \cup {"list_child_prefixes:root"}
    /\ UNCHANGED <<leafless, summary_listing, email_doc, report_body, map_load, config, start_date, active_map, agency_attachments, attachment_keys,
                   agency_summary_text, agencies_no_ranked, agencies_no_summary,
                   counters, attempts, last_send, result, error>>

\* src/lambda2.py:394-404 : the attachments found below the leaves of one
\* agency, each under the last segment of its key (line 402)
CollectAttachments(agency_folder, leaves) ==
    LET keys == Flatten(MapSeq(LAMBDA leaf : list_keys_with_suffix(leaf, ".csv"), leaves))
    IN [k \in 1..Len(keys) |-> [filename |-> <<agency_folder.id, k, keys[k].name_tokens>>]]

\* Variant: every scanned agency is put on the no-ranked list.
LacksRankedAlways(atts) == TRUE

\* Variant: no agency is ever put on the no-ranked list.
LacksRankedNever(atts) == FALSE

\* src/lambda2.py:406-407
LacksRanked(atts) == atts = <<>>

\* The store calls of one traversal below an agency prefix (src/lambda2.py:
\* 394-403, 415-422): the children are always listed, the keys when there is a
\* leaf, and objects are fetched when a listed key has the wanted suffix.
ScanCallChain(root) ==
    <<"list_child_prefixes:" \o root, "list_keys_with_suffix:" \o root, "get_object:" \o root>>
ScanCalls(root, leaves, suffix) ==
    LET keys == Flatten(MapSeq(LAMBDA leaf : list_keys_with_suffix(leaf, suffix), leaves))
        n == IF leaves = <<>> THEN 1 ELSE IF keys = <<>> THEN 2 ELSE 3
    IN {ScanCallChain(root)[k] : k \in 1..n}

\* src/lambda2.py:390-407, for the ranked listings drawn from Listings; leafless
\* remembers the agencies found without any leaf prefix where keep asks for it.
ScanRankedFrom(Listings, keep) ==
    /\ pc = "scan_ranked"
    /\ \E leaves \in Listings :
         LET agency_folder == agencies[idx]
             atts == CollectAttachments(agency_folder, leaves)
         IN /\ IF atts # <<>>
               THEN /\ agency_attachments' =
                         [f \in DOMAIN agency_attachments \cup {agency_folder} |->
                             IF f = agency_folder THEN atts ELSE agency_attachments[f]]
                    /\ attachment_keys' = Append(attachment_keys, agency_folder)
               ELSE UNCHANGED <<agency_attachments, attachment_keys>>
            /\ agencies_no_ranked' =
                 IF LacksRanked(atts) THEN Append(agencies_no_ranked, agency_folder)
                 ELSE agencies_no_ranked
            /\ store_calls' = store_calls \cup ScanCalls("ranked", leaves, ".csv")
            /\ leafless' = IF keep /\ leaves = <<>>
                           THEN leafless \cup {<<"ranked", agency_folder>>} ELSE leafless
    /\ pc' = "scan_summary"
    /\ UNCHANGED <<summary_listing, email_doc, report_body, map_load, config, start_date, active_map, agencies, idx, agency_summary_text,
                   agencies_no_summary, counters, attempts, last_send, result, error>>

\* src/lambda2.py:390-407
ScanRanked == ScanRankedFrom(LeafListings(RankedObjects), FALSE)

\* Variant: an agency without any leaf prefix gets a placeholder block.
CollectSummaryOrPlaceholder(agency_folder, leaves) ==
    LET keys == Flatten(MapSeq(LAMBDA leaf : list_keys_with_suffix(leaf, ".txt"), leaves))
        labelled == [k \in 1..Len(keys) |->
                        [label |-> <<agency_folder.id, k, keys[k].tokens>>,
                         content |-> read_text_file(keys[k])]]
    IN IF leaves = <<>>
       THEN <<[label |-> <<agency_folder.id, 0, {}>>, content |-> <<"t">>]>>
       ELSE SelectSeq(labelled, LAMBDA b : b.content # <<>>)

\* src/lambda2.py:412-426 : the summary blocks of one agency, in listing order
CollectSummaryBlocks(agency_folder, leaves) ==
    LET keys == Flatten(MapSeq(LAMBDA leaf : list_keys_with_suffix(leaf, ".txt"), leaves))
        labelled == [k \in 1..Len(keys) |->
                        [label |-> <<agency_folder.id, k, keys[k].tokens>>,
                         content |-> read_text_file(keys[k])]]
    IN SelectSeq(labelled, LAMBDA b : b.content # <<>>)

\* Variant: the e-mail section is entered after the first agency of the loop.
MoreToScanNever == FALSE

\* src/lambda2.py:390 : the scan loop goes over every discovered agency
MoreToScan == idx < Len(agencies)

\* src/lambda2.py:409-432, for the summary listings drawn from Listings; keep
\* names what is remembered of the listing: "leafless" the agencies found without
\* any leaf prefix, "listing" the listing itself.
ScanSummaryFrom(Listings, keep) ==
    /\ pc = "scan_summary"
    /\ \E leaves \in Listings :
         LET agency_folder == agencies[idx]
             summary_blocks == CollectSummaryBlocks(agency_folder, leaves)
         IN /\ agency_summary_text' =
                 [f \in DOMAIN agency_summary_text \cup {agency_folder} |->
                     IF f = agency_folder THEN summary_blocks ELSE agency_summary_text[f]]
            /\ agencies_no_summary' =
                 IF summary_blocks = <<>> THEN Append(agencies_no_summary, agency_folder)
                 ELSE agencies_no_summary
            /\ store_calls' = store_calls \cup ScanCalls("summary", leaves, ".txt")
            /\ leafless' = IF "leafless" \in keep /\ leaves = <<>>
                           THEN leafless \cup {<<"summary", agency_folder>>} ELSE leafless
            /\ summary_listing' =
                 IF "listing" \in keep
                 THEN [f \in DOMAIN summary_listing \cup {agency_folder} |->
                          IF f = agency_folder THEN leaves ELSE summary_listing[f]]
                 ELSE summary_listing
    /\ idx' = IF MoreToScan THEN idx + 1 ELSE 1
    /\ pc' = IF MoreToScan THEN "scan_ranked" ELSE "email"
    /\ UNCHANGED <<email_doc, report_body, map_load, config, start_date, active_map, agencies, agency_attachments, attachment_keys,
                   agencies_no_ranked, counters, attempts, last_send, result, error>>

\* src/lambda2.py:409-432
ScanSummary == ScanSummaryFrom(LeafListings(SummaryObjects), {})

\* A listing or a fetch raises during discovery or the scan (botocore error).
StorageError ==
    /\ pc \in {"discover", "scan_ranked", "scan_summary"}
    /\ Abort("storage error")
    /\ \E n \in 1..3 :
         store_calls' = store_calls \cup
            (CASE pc = "discover" -> {"list_child_prefixes:root"}
               [] pc = "scan_ranked" -> {ScanCallChain("ranked")[k] : k \in 1..n}
               [] OTHER -> {ScanCallChain("summary")[k] : k \in 1..n})
    /\ UNCHANGED <<leafless, summary_listing, email_doc, report_body, map_load, config, start_date, active_map, idx, scanned, counters, attempts, last_send, result>>

\* ---------------------------------------------------------------- delivery
\* Variant: the second host is tried first.
HostListReversed == <<SMTP_HOST_2, SMTP_HOST_1>>

\* src/lambda2.py:301
HostList == <<SMTP_HOST_1, SMTP_HOST_2>>

\* What _send_via_host does at each position of the host list: TRUE when the
\* send completes, FALSE when it raises (an empty host name is never connected to).
HostOutcomes == {oc \in [1..2 -> BOOLEAN] : \A k \in 1..2 : HostList[k] = "" => ~oc[k]}

\* src/lambda2.py:300-313 : the loop over the hosts, from position k on
RECURSIVE TryHosts(_, _, _)
TryHosts(k, oc, acc) ==
    IF k > Len(HostList) THEN [acc EXCEPT !.success = FALSE]
    ELSE LET host == HostList[k] IN
         IF host = "" THEN TryHosts(k + 1, oc, acc)
         ELSE IF oc[k]
              THEN [acc EXCEPT !.tried = Append(@, host), !.success = TRUE, !.host_used = host]
              ELSE TryHosts(k + 1, oc, [acc EXCEPT !.tried = Append(@, host),
                                                  !.errors = Append(@, host)])

\* Variant: the loop goes on to the next host after a send that completed.
RECURSIVE TryHostsNoReturn(_, _, _)
TryHostsNoReturn(k, oc, acc) ==
    IF k > Len(HostList) THEN acc
    ELSE LET host == HostList[k] IN
         IF host = "" THEN TryHostsNoReturn(k + 1, oc, acc)
         ELSE IF oc[k]
              THEN TryHostsNoReturn(k + 1, oc,
                       [acc EXCEPT !.tried = Append(@, host), !.success = TRUE,
                                   !.host_used = IF @ = "" THEN host ELSE @])
              ELSE TryHostsNoReturn(k + 1, oc, [acc EXCEPT !.tried = Append(@, host),
                                                          !.errors = Append(@, host)])
send_email_no_return(oc) == TryHostsNoReturn(1, oc, [NoSend EXCEPT !.outcome = oc])

\* Variant: only the error of the last failing host is kept.
send_email_last_error(oc) ==
    LET r == TryHosts(1, oc, [NoSend EXCEPT !.outcome = oc])
    IN IF r.success \/ r.errors = <<>> THEN r
       ELSE [r EXCEPT !.errors = <<r.errors[Len(r.errors)]>>]

\* src/lambda2.py:279-313
send_email_with_failover(oc) == TryHosts(1, oc, [NoSend EXCEPT !.outcome = oc])

\* ------------------------------------------------------------ composition
\* src/lambda2.py:194-195
normalize_agency_for_subject(agency_folder_name) ==
    IF agency_folder_name.ns THEN [ns |-> FALSE, id |-> agency_folder_name.id]
    ELSE agency_folder_name

\* Variant: the explicit lookup falls back to the default list.
get_explicit_dl_or_default(agency_folder, map) ==
    LET dl == IF agency_folder \in DOMAIN map THEN map[agency_folder] ELSE <<>>
        explicit == SelectSeq(dl, LAMBDA x : x # Blank)
    IN IF explicit # <<>> THEN explicit ELSE DEFAULT_EMAIL_TO_LIST

\* src/lambda2.py:228-235
get_explicit_dl_for_agency(agency_folder, map) ==
    LET dl == IF agency_folder \in DOMAIN map THEN map[agency_folder] ELSE <<>>
    IN SelectSeq(dl, LAMBDA x : x # Blank)

\* Variant: the explicit list of the first mapped agency is used for every agency.
get_report_recipients_of_first(agency_folder, map) ==
    LET explicit == IF DOMAIN map = {} THEN <<>>
                    ELSE get_explicit_dl_for_agency(
                             CHOOSE f \in DOMAIN map : \A g \in DOMAIN map : f.id <= g.id, map)
    IN IF explicit # <<>> THEN explicit ELSE DEFAULT_EMAIL_TO_LIST

\* src/lambda2.py:238-245
get_report_recipients_for_agency(agency_folder, map) ==
    LET explicit == get_explicit_dl_for_agency(agency_folder, map)
    IN IF explicit # <<>> THEN explicit ELSE DEFAULT_EMAIL_TO_LIST

\* src/lambda2.py:147-151
EMAIL_FOOTER == <<"FOOTER", MAIL_FROM>>

SummaryOf(agency_folder) ==
    IF agency_folder \in DOMAIN agency_summary_text
    THEN agency_summary_text[agency_folder] ELSE <<>>

Message(kind, agency, subject, body, bcc, atts) ==
    [kind |-> kind, agency |-> agency, subject |-> subject, body |-> body,
     to |-> MAIL_FROM, bcc |-> bcc, attachments |-> atts, ok |-> FALSE]

\* src/current_lambda_new_feature.py:24-40
OutageMessage ==
    Message("SYSTEM_OUTAGE", NoAgency,
            <<"Weekly Report - NO DATA (ALL AGENCIES) start_date=", start_date>>,
            <<<<"NO DATA DETAILS (SYSTEM OUTAGE)">>, <<"Paths checked">>, EMAIL_FOOTER>>,
            DEFAULT_EMAIL_TO_LIST, <<>>)

\* Variant: the subject of a REPORT tells how many files are attached.
ReportMessageCountingFiles(agency_folder, bcc_list) ==
    LET summary_text == SummaryOf(agency_folder) IN
    Message("REPORT", agency_folder,
            <<"Weekly Report", normalize_agency_for_subject(agency_folder),
              Len(agency_attachments[agency_folder])>>,
            (IF summary_text # <<>> THEN <<<<"SUMMARY REPORTS", summary_text>>>> ELSE <<>>)
                \o <<EMAIL_FOOTER>>,
            bcc_list, agency_attachments[agency_folder])

\* src/current_lambda_new_feature.py:73-88
ReportMessage(agency_folder, bcc_list) ==
    LET summary_text == SummaryOf(agency_folder) IN
    Message("REPORT", agency_folder,
            <<"Weekly Report", normalize_agency_for_subject(agency_folder)>>,
            (IF summary_text # <<>> THEN <<<<"SUMMARY REPORTS", summary_text>>>> ELSE <<>>)
                \o <<EMAIL_FOOTER>>,
            bcc_list, agency_attachments[agency_folder])

\* Variant: the summary text is never put into the notice.
NoDataMessageWithoutSummary(agency_folder, explicit_dl) ==
    Message("TENANT_NO_DATA", agency_folder,
            <<"Weekly Report - NO DATA", normalize_agency_for_subject(agency_folder)>>,
            <<<<"no report data and no summary report">>, EMAIL_FOOTER>>,
            explicit_dl, <<>>)

\* src/current_lambda_new_feature.py:111-133
NoDataMessage(agency_folder, explicit_dl) ==
    LET summary_text == SummaryOf(agency_folder) IN
    Message("TENANT_NO_DATA", agency_folder,
            <<"Weekly Report - NO DATA", normalize_agency_for_subject(agency_folder)>>,
            (IF summary_text # <<>>
             THEN <<<<"no report data; summary included below">>,
                    <<"SUMMARY REPORTS", summary_text>>>>
             ELSE <<<<"no report data and no summary report">>>>)
                \o <<EMAIL_FOOTER>>,
            explicit_dl, <<>>)

\* Variant: the missing-attachments line lists every discovered agency.
MissingListOfAllAgencies ==
    Message("FALLBACK_NO_DATA_SUMMARY", NoAgency,
            <<"Weekly Report - NO DATA (start_date=)", start_date>>,
            <<<<"NO DATA DETAILS", MapSeq(normalize_agency_for_subject, agencies)>>,
              <<"SUMMARY NO DATA DETAILS",
                IF agencies_no_summary # <<>>
                THEN MapSeq(normalize_agency_for_subject, agencies_no_summary)
                ELSE <<"None">>>>,
              EMAIL_FOOTER>>,
            DEFAULT_EMAIL_TO_LIST, <<>>)

\* Variant: the details are appended to the body that starts with the
\* reply-contact and disclaimer text (layout of src/lambda_nodata.py:344-350).
MissingListAfterFooter ==
    Message("FALLBACK_NO_DATA_SUMMARY", NoAgency,
            <<"Weekly Report - NO DATA (start_date=)", start_date>>,
            <<EMAIL_FOOTER,
              <<"NO DATA DETAILS", MapSeq(normalize_agency_for_subject, agencies_no_ranked)>>>>,
            DEFAULT_EMAIL_TO_LIST, <<>>)

\* src/current_lambda_new_feature.py:149-169
MissingListMessage ==
    Message("FALLBACK_NO_DATA_SUMMARY", NoAgency,
            <<"Weekly Report - NO DATA (start_date=)", start_date>>,
            <<<<"NO DATA DETAILS", MapSeq(normalize_agency_for_subject, agencies_no_ranked)>>,
              <<"SUMMARY NO DATA DETAILS",
                IF agencies_no_summary # <<>>
                THEN MapSeq(normalize_agency_for_subject, agencies_no_summary)
                ELSE <<"None">>>>,
              EMAIL_FOOTER>>,
            DEFAULT_EMAIL_TO_LIST, <<>>)

\* One call of send_email_with_failover for msg: the attempt is recorded; the
\* RuntimeError of line 313 is not caught by the handler and ends the run.
Deliver(msg, oc) ==
    LET r == send_email_with_failover(oc) IN
    /\ last_send' = r
    /\ attempts' = Append(attempts, [msg EXCEPT !.ok = r.success])
    /\ error' = IF r.success THEN error ELSE "RuntimeError: All SMTP hosts failed"

Delivered(oc) == send_email_with_failover(oc).success

\* ------------------------------------------------------------ e-mail logic
\* src/current_lambda_new_feature.py:14-16
all_no_ranked == Len(agencies) > 0 /\ Len(agencies_no_ranked) = Len(agencies)
all_no_summary == Len(agencies) > 0 /\ Len(agencies_no_summary) = Len(agencies)
\* Variant: the outage test looks at the ranked CSVs only (src/Lambda_summary.py:398).
no_data_all_ranked_only == all_no_ranked
\* Variant: no outage branch at all (e-mail section of src/lambda2.py:434-546).
no_outage_branch == FALSE
\* Variant: the two tests lack the len(agencies) > 0 guard.
no_data_all_unguarded ==
    Len(agencies_no_ranked) = Len(agencies) /\ Len(agencies_no_summary) = Len(agencies)

no_data_all_case == all_no_ranked /\ all_no_summary

\* Variant: the list is suppressed when every agency lacks CSVs (src/lambda2.py:515-519).
missing_list_unless_all_no_ranked ==
    DEFAULT_EMAIL_TO_LIST # <<>> /\ agencies_no_ranked # <<>> /\ ~all_no_ranked

\* Variant: the list is also sent when only summaries are missing.
missing_list_for_any_gap ==
    DEFAULT_EMAIL_TO_LIST # <<>> /\ (agencies_no_ranked # <<>> \/ agencies_no_summary # <<>>)

\* src/current_lambda_new_feature.py:148
sends_default_missing_list == DEFAULT_EMAIL_TO_LIST # <<>> /\ agencies_no_ranked # <<>>

\* Variant: the NO DATA loop is placed before the REPORT loop.
SendPhasesNoDataFirst == <<"no_data", "reports", "default_list">>

\* The order of the three sending sections, src/current_lambda_new_feature.py:64-176
SendPhases == <<"reports", "no_data", "default_list">>

\* Iterations of each section: the two loops run over the collected lists, the
\* default-list section is one conditional statement.
PhaseLen(p) ==
    CASE p = "reports" -> Len(attachment_keys)
      [] p = "no_data" -> Len(agencies_no_ranked)
      [] OTHER -> 1

PhaseIndex(p) == CHOOSE j \in DOMAIN SendPhases : SendPhases[j] = p

\* Control after iteration i - 1 of section k: the next iteration that exists,
\* or the return statement once every section is exhausted.
RECURSIVE Advance(_, _)
Advance(k, i) ==
    IF k > Len(SendPhases) THEN <<"return", 1>>
    ELSE IF i <= PhaseLen(SendPhases[k]) THEN <<SendPhases[k], i>>
    ELSE Advance(k + 1, 1)

\* src/current_lambda_new_feature.py:49-57
OutageResult ==
    [status |-> "no_data_all",
     agencies_total |-> Len(agencies),
     agencies_no_ranked |-> Len(agencies_no_ranked),
     agencies_no_summary |-> Len(agencies_no_summary)]

\* src/current_lambda_new_feature.py:178-188
RunResult(reports, agency_no_data, default_missing_list) ==
    [status |-> "ok",
     report_emails_sent |-> reports,
     agency_no_data_emails_sent |-> agency_no_data,
     default_missing_list_sent |-> default_missing_list,
     agencies_total |-> Len(agencies),
     agencies_no_ranked |-> Len(agencies_no_ranked),
     agencies_no_summary |-> Len(agencies_no_summary)]

\* Go on with iteration i of section k; the handler returns its result when
\* nothing is left to do.
Continue(k, i, reports, agency_no_data, default_missing_list) ==
    LET nxt == Advance(k, i) IN
    /\ pc' = IF nxt[1] = "return" THEN "done" ELSE nxt[1]
    /\ idx' = nxt[2]
    /\ result' = IF nxt[1] = "return"
                 THEN RunResult(reports, agency_no_data, default_missing_list)
                 ELSE result

\* Variant: the failed delivery is swallowed and the handler stays where it is.
RaisedAndSwallowed ==
    /\ pc' = "stuck"
    /\ UNCHANGED <<idx, result>>

Raised ==
    /\ pc' = "aborted"
    /\ UNCHANGED <<idx, result>>

\* src/current_lambda_new_feature.py:14-57
OutageCheck ==
    /\ pc = "email"
    /\ IF no_data_all_case
       THEN IF DEFAULT_EMAIL_TO_LIST # <<>>
            THEN \E oc \in HostOutcomes :
                   /\ Deliver(OutageMessage, oc)
                   /\ IF Delivered(oc)
                      THEN pc' = "done" /\ result' = OutageResult /\ idx' = idx
                      ELSE Raised
            ELSE /\ pc' = "done"
                 /\ result' = OutageResult
                 /\ UNCHANGED <<idx, attempts, last_send, error>>
       ELSE /\ Continue(1, 1, sent_reports, sent_agency_no_data, sent_default_missing_list)
            /\ UNCHANGED <<attempts, last_send, error>>
    /\ UNCHANGED <<leafless, summary_listing, email_doc, report_body, store_calls, map_load, config, start_date, active_map, scanned, counters>>

\* src/current_lambda_new_feature.py:64-94 : one iteration of the REPORT loop
ReportStep ==
    /\ pc = "reports"
    /\ LET agency_folder == attachment_keys[idx]
           attachments == agency_attachments[agency_folder]
           bcc_list == get_report_recipients_for_agency(agency_folder, active_map)
           k == PhaseIndex("reports")
       IN IF attachments = <<>> \/ bcc_list = <<>>
          THEN /\ Continue(k, idx + 1, sent_reports, sent_agency_no_data,
                           sent_default_missing_list)
               /\ UNCHANGED <<sent_reports, attempts, last_send, error>>
          ELSE \E oc \in HostOutcomes :
                 /\ Deliver(ReportMessage(agency_folder, bcc_list), oc)
                 /\ IF Delivered(oc)
                    THEN /\ sent_reports' = sent_reports + 1
                         /\ Continue(k, idx + 1, sent_reports + 1, sent_agency_no_data,
                                     sent_default_missing_list)
                    ELSE /\ Raised
                         /\ UNCHANGED sent_reports
    /\ UNCHANGED <<leafless, summary_listing, email_doc, report_body, store_calls, map_load, config, start_date, active_map, scanned, sent_agency_no_data,
                   sent_default_missing_list>>

\* src/current_lambda_new_feature.py:105-139 : one iteration of the NO DATA loop
NoDataStep ==
    /\ pc = "no_data"
    /\ LET agency_folder == agencies_no_ranked[idx]
           explicit_dl == get_explicit_dl_for_agency(agency_folder, active_map)
           k == PhaseIndex("no_data")
       IN IF explicit_dl = <<>>
          THEN /\ Continue(k, idx + 1, sent_reports, sent_agency_no_data,
                           sent_default_missing_list)
               /\ UNCHANGED <<sent_agency_no_data, attempts, last_send, error>>
          ELSE \E oc \in HostOutcomes :
                 /\ Deliver(NoDataMessage(agency_folder, explicit_dl), oc)
                 /\ IF Delivered(oc)
                    THEN /\ sent_agency_no_data' = sent_agency_no_data + 1
                         /\ Continue(k, idx + 1, sent_reports, sent_agency_no_data + 1,
                                     sent_default_missing_list)
                    ELSE /\ Raised
                         /\ UNCHANGED sent_agency_no_data
    /\ UNCHANGED <<leafless, summary_listing, email_doc, report_body, store_calls, map_load, config, start_date, active_map, scanned, sent_reports, sent_default_missing_list>>

\* src/current_lambda_new_feature.py:146-176
DefaultMissingList ==
    /\ pc = "default_list"
    /\ LET k == PhaseIndex("default_list") IN
       IF sends_default_missing_list
       THEN \E oc \in HostOutcomes :
              /\ Deliver(MissingListMessage, oc)
              /\ IF Delivered(oc)
                 THEN /\ sent_default_missing_list' = 1
                      /\ Continue(k, idx + 1, sent_reports, sent_agency_no_data, 1)
                 ELSE /\ Raised
                      /\ UNCHANGED sent_default_missing_list
       ELSE /\ Continue(k, idx + 1, sent_reports, sent_agency_no_data,
                        sent_default_missing_list)
            /\ UNCHANGED <<sent_default_missing_list, attempts, last_send, error>>
    /\ UNCHANGED <<leafless, summary_listing, email_doc, report_body, store_calls, map_load, config, start_date, active_map, scanned, sent_reports, sent_agency_no_data>>

Next ==
    \/ Validate \/ LoadMap \/ Discover \/ ScanRanked \/ ScanSummary \/ StorageError
    \/ OutageCheck \/ ReportStep \/ NoDataStep \/ DefaultMissingList

Spec == Init /\ [][Next]_vars

\* ======================================================================
\* Composition of one agency's bodies from several summary fragments
\* ======================================================================
MaxFragments == 3     \* summary objects listed for the agency

\* Summary objects whose keys carry the DIPS token, the SIPS token, both or
\* neither; one of them is blank once stripped.
FragmentObjects ==
    {[suffix |-> ".txt", body |-> <<"t">>, tokens |-> t] : t \in SUBSET {"DIPS", "SIPS"}}
    \cup {[suffix |-> ".txt", body |-> <<"SP", "LF">>, tokens |-> {"DIPS"}]}

\* The objects of flat, in order, divided into leaves after the marked positions.
RECURSIVE SplitAt(_, _, _, _)
SplitAt(flat, cuts, i, cur) ==
    IF i > Len(flat) THEN (IF cur = <<>> THEN <<>> ELSE <<cur>>)
    ELSE IF i < Len(flat) /\ cuts[i]
         THEN <<Append(cur, flat[i])>> \o SplitAt(flat, cuts, i + 1, <<>>)
         ELSE SplitAt(flat, cuts, i + 1, Append(cur, flat[i]))

\* Up to MaxFragments objects spread in traversal order over leaves that each
\* hold at least one object.
FragmentListings ==
    UNION {{SplitAt(flat, cuts, 1, <<>>) : cuts \in [1..(Len(flat) - 1) -> BOOLEAN]}
           : flat \in SeqsUpTo(FragmentObjects, MaxFragments)}

\* src/helper_func.py:1-2 : the token occurs in the name, whatever the case
contains_token(name, token) == token \in name[3]

\* Variant: the blocks of a section are rendered last-found first.
RECURSIVE Reverse(_)
Reverse(q) == IF q = <<>> THEN <<>> ELSE Append(Reverse(Tail(q)), Head(q))
render_txt_reversed(items, title) ==
    [title |-> title, blocks |-> Reverse(items),
     note |-> IF items = <<>> THEN "(no matching summary txt files)" ELSE ""]

\* src/helper_func.py:28-39 : one block per item, in the order of items
render_txt(items, title) ==
    [title |-> title, blocks |-> items,
     note |-> IF items = <<>> THEN "(no matching summary txt files)" ELSE ""]

\* src/helper_func.py:41-45 : the sorted names, which depend on the set of names only
render_csv_list(names, title) ==
    [title |-> title, blocks |-> <<>>, names |-> Range(names),
     note |-> IF names = <<>> THEN "(no matching DIPS/SIPS csv attachments)" ELSE ""]

\* src/helper_func.py:5-57
format_report_email_body(agency_folder, summary_items, attachments) ==
    LET dips_txt == SelectSeq(summary_items, LAMBDA it : contains_token(it.label, "DIPS"))
        sips_txt == SelectSeq(summary_items, LAMBDA it : contains_token(it.label, "SIPS"))
        names == MapSeq(LAMBDA att : att.filename, attachments)
        dips_csv_names == SelectSeq(names, LAMBDA fn : contains_token(fn, "DIPS"))
        sips_csv_names == SelectSeq(names, LAMBDA fn : contains_token(fn, "SIPS"))
    IN <<render_txt(dips_txt, "SUMMARY REPORTS - DIPS"),
         render_csv_list(dips_csv_names, "ATTACHED CSV FILES - DIPS"),
         render_txt(sips_txt, "SUMMARY REPORTS - SIPS"),
         render_csv_list(sips_csv_names, "ATTACHED CSV FILES - SIPS")>>

\* The REPORT body of the agency at hand is built by format_report_email_body.
FormatReportBody ==
    /\ pc = "reports"
    /\ report_body = NoBody
    /\ LET agency_folder == attachment_keys[idx] IN
       report_body' = format_report_email_body(agency_folder, SummaryOf(agency_folder),
                                               agency_attachments[agency_folder])
    /\ UNCHANGED <<config, start_date, pc, active_map, idx, scanned, counters, attempts, last_send,
                   result, error, store_calls, map_load, email_doc, leafless, summary_listing>>

ScanFragments == ScanSummaryFrom(FragmentListings, {})

\* Ranked objects whose token stands in a directory name only, in the file
\* name too, or whose file name carries the other token as well.
NamedRankedObjects ==
    {[suffix |-> ".csv", body |-> <<"t">>, tokens |-> {"DIPS"}, name_tokens |-> {}],
     [suffix |-> ".csv", body |-> <<"t">>, tokens |-> {"DIPS"}, name_tokens |-> {"DIPS"}],
     [suffix |-> ".csv", body |-> <<"t">>, tokens |-> {"DIPS", "SIPS"},
      name_tokens |-> {"DIPS", "SIPS"}],
     [suffix |-> ".txt", body |-> <<"t">>, tokens |-> {"DIPS"}, name_tokens |-> {"DIPS"}]}

\* src/lambda2.py:390-407
ScanRankedNamed == ScanRankedFrom(LeafListings(NamedRankedObjects), FALSE)

DiscoverOne == Discover /\ Len(agencies') = 1

InitCompose ==
    /\ Init
    /\ MAIL_FROM = "sender"
    /\ SMTP_HOST_1 = "host1"
    /\ SMTP_HOST_2 = ""
    /\ prefixes_ok = <<TRUE, TRUE, TRUE>>
    /\ DEFAULT_EMAIL_TO_LIST = <<DefaultAddr>>
    /\ TEST_MODE
    /\ TEST_EMAIL_MAP # EmptyMap

NextCompose ==
    \/ Validate \/ LoadMap \/ DiscoverOne \/ ScanRankedNamed \/ ScanFragments
    \/ OutageCheck \/ ReportStep \/ NoDataStep \/ DefaultMissingList
    \/ FormatReportBody

SpecCompose == InitCompose /\ [][NextCompose]_vars

\* ======================================================================
\* Loading of recipient documents with values of every JSON shape
\* ======================================================================
MaxListLen == 2       \* elements of a list value of the document

\* Elements of a list value: an address, an address with surrounding
\* whitespace, the empty string, a whitespace-only string, a number.
RawElements(i) ==
    {ExplicitAddr(i), <<"dl", i, "padded">>, Blank, <<"", 0, "padded">>, <<"7", 0, "int">>}

\* Values of the document: a list, one string, or a number / null.
ShapedRawValues(i) ==
    {[t |-> "list", v |-> l] : l \in SeqsUpTo(RawElements(i), MaxListLen)}
    \cup {[t |-> "str", v |-> <<e>>] :
             e \in {ExplicitAddr(i), <<"dl", i, "padded">>, Blank, <<"", 0, "padded">>}}
    \cup {[t |-> "other", v |-> <<e>>] : e \in {<<"7", 0, "int">>, <<"null", 0, "null">>}}

ShapedRawMaps ==
    UNION {{m \in [{Folder(i) : i \in D} -> UNION {ShapedRawValues(i) : i \in D}] :
               \A i \in D : m[Folder(i)] \in ShapedRawValues(i)}
           : D \in SUBSET (1..2)}

ShapedEmailDocs ==
    {[kind |-> k, raw |-> EmptyMap] : k \in {"unreachable", "malformed", "non_object"}}
    \cup {[kind |-> "object", raw |-> m] : m \in ShapedRawMaps}

LoadMapObserved == LoadMapFrom(ShapedEmailDocs, TRUE)

InitMapLoad ==
    /\ Init
    /\ MAIL_FROM = "sender"
    /\ SMTP_HOST_1 = "host1"
    /\ SMTP_HOST_2 = ""
    /\ prefixes_ok = <<TRUE, TRUE, TRUE>>
    /\ DEFAULT_EMAIL_TO_LIST = <<>>
    /\ ~TEST_MODE
    /\ email_list_location = "s3key"

NextMapLoad == Validate \/ LoadMapObserved

SpecMapLoad == InitMapLoad /\ [][NextMapLoad]_vars

\* ======================================================================
\* Scan with the leafless agencies remembered
\* ======================================================================
ScanRankedObserved == ScanRankedFrom(LeafListings(RankedObjects), TRUE)
ScanSummaryObserved == ScanSummaryFrom(LeafListings(SummaryObjects), {"leafless"})

InitScan ==
    /\ Init
    /\ MAIL_FROM = "sender"
    /\ SMTP_HOST_1 = "host1"
    /\ SMTP_HOST_2 = ""
    /\ prefixes_ok = <<TRUE, TRUE, TRUE>>
    /\ TEST_MODE
    /\ TEST_EMAIL_MAP # EmptyMap

NextScan ==
    \/ Validate \/ LoadMap \/ Discover \/ ScanRankedObserved \/ ScanSummaryObserved
    \/ StorageError \/ OutageCheck \/ ReportStep \/ NoDataStep \/ DefaultMissingList

SpecScan == InitScan /\ [][NextScan]_vars

\* ======================================================================
\* Scan of one agency whose summary objects hold every short text
\* ======================================================================
MaxTextLen == 2       \* characters of a summary object

TextChars == {"t"} \cup Whitespace

\* Summary objects with every body of up to MaxTextLen characters, and one
\* object that is not a text object.
TextObjects ==
    {[suffix |-> ".txt", body |-> b, tokens |-> {"DIPS"}] : b \in SeqsUpTo(TextChars, MaxTextLen)}
    \cup {[suffix |-> ".csv", body |-> <<"t">>, tokens |-> {"DIPS"}]}

\* No leaf, or one leaf with up to MaxFiles objects.
TextListings == {<<>>} \cup {<<l>> : l \in SeqsUpTo(TextObjects, MaxFiles)}

ScanTexts == ScanSummaryFrom(TextListings, {"listing"})

DiscoverFirst == Discover /\ agencies' = <<Folder(1)>>

InitText ==
    /\ Init
    /\ MAIL_FROM = "sender"
    /\ SMTP_HOST_1 = "host1"
    /\ SMTP_HOST_2 = ""
    /\ prefixes_ok = <<TRUE, TRUE, TRUE>>
    /\ TEST_MODE
    /\ TEST_EMAIL_MAP # EmptyMap

NextText ==
    \/ Validate \/ LoadMap \/ DiscoverFirst \/ ScanRanked \/ ScanTexts
    \/ OutageCheck \/ ReportStep \/ NoDataStep \/ DefaultMissingList

SpecText == InitText /\ [][NextText]_vars

\* ======================================================================
\* Runs for several dates
\* ======================================================================
\* Dates asked for by the event of the invocation.
EventDates == {<<"date", 1>>, <<"date", 2>>}

InitSubject ==
    /\ InitRun
    /\ MAIL_FROM = "sender"
    /\ SMTP_HOST_1 = "host1"
    /\ SMTP_HOST_2 = ""
    /\ prefixes_ok = <<TRUE, TRUE, TRUE>>
    /\ DEFAULT_EMAIL_TO_LIST = <<DefaultAddr>>
    /\ TEST_MODE
    /\ email_list_location = ""
    /\ event \in {NoEvent} \cup {[NoEvent EXCEPT !.start_date = d] : d \in EventDates}
    /\ today = <<FirstDay + 2, 0>>
    /\ TEST_START_DATE = EmptyStr
    /\ summary_only = {}

SpecSubject == InitSubject /\ [][Next]_vars

\* ======================================================================
\* Both recipient sources configured, in test and in production mode
\* ======================================================================
LoadMapKept == LoadMapFrom(S3EmailDocs, TRUE)

\* An agency has one ranked CSV or none, one summary text or none.
ScanRankedOneOrNone ==
    ScanRankedFrom({<<>>, <<<<[suffix |-> ".csv", body |-> <<"t">>, tokens |-> {"DIPS"},
                                 name_tokens |-> {}]>>>>}, FALSE)
ScanSummaryOneOrNone ==
    ScanSummaryFrom({<<>>, <<<<[suffix |-> ".txt", body |-> <<"t">>, tokens |-> {"DIPS"}]>>>>}, {})

InitSwitch ==
    /\ InitRun
    /\ MAIL_FROM = "sender"
    /\ SMTP_HOST_1 = "host1"
    /\ SMTP_HOST_2 = ""
    /\ prefixes_ok = <<TRUE, TRUE, TRUE>>
    /\ DEFAULT_EMAIL_TO_LIST = <<DefaultAddr>>
    /\ event = NoEvent
    /\ today = <<FirstDay + 2, 0>>
    /\ TEST_START_DATE = EmptyStr
    /\ summary_only = {}

NextSwitch ==
    \/ Validate \/ LoadMapKept \/ Discover \/ ScanRankedOneOrNone \/ ScanSummaryOneOrNone
    \/ OutageCheck \/ ReportStep \/ NoDataStep \/ DefaultMissingList

SpecSwitch == InitSwitch /\ [][NextSwitch]_vars

\* ======================================================================
\* Runs that go on: the handler is sequential code, every step it can take
\* is taken.
\* ======================================================================
InitLive ==
    /\ Init
    /\ DEFAULT_EMAIL_TO_LIST = <<DefaultAddr>>

SpecLive == InitLive /\ [][Next]_vars /\ WF_vars(Next)

\* ======================================================================
\* Stores with agency folders under the summary root alone
\* ======================================================================
InitStore ==
    /\ InitRun
    /\ MAIL_FROM = "sender"
    /\ SMTP_HOST_1 = "host1"
    /\ SMTP_HOST_2 = ""
    /\ prefixes_ok = <<TRUE, TRUE, TRUE>>
    /\ DEFAULT_EMAIL_TO_LIST = <<DefaultAddr>>
    /\ TEST_MODE
    /\ TEST_EMAIL_MAP # EmptyMap
    /\ email_list_location = ""
    /\ event = NoEvent
    /\ today = <<FirstDay + 2, 0>>
    /\ TEST_START_DATE = EmptyStr
    /\ summary_only \in SUBSET (1..MaxAgencies)

SpecStore == InitStore /\ [][Next]_vars

\* ======================================================================
\* Invocations with every event on every day of a week
\* ======================================================================
\* Events: start_date absent, empty or given; mode absent, "weekly" or another
\* word; days_ago absent or a number.
Events ==
    [start_date : {NoneValue, EmptyStr, <<"date", 1>>},
     mode : {"None", "weekly", "daily"},
     days_ago : {NoneValue, <<"int", 0>>, <<"int", 7>>, <<"int", 14>>}]

\* The moments at which a run can start: MaxDays consecutive days from a
\* Monday on, at midnight or later in the day.
Moments == {<<d, part>> : d \in FirstDay..(FirstDay + MaxDays - 1), part \in {0, 1}}

InitDate ==
    /\ InitRun
    /\ MAIL_FROM = "sender"
    /\ SMTP_HOST_1 = "host1"
    /\ SMTP_HOST_2 = ""
    /\ prefixes_ok = <<TRUE, TRUE, TRUE>>
    /\ DEFAULT_EMAIL_TO_LIST = <<DefaultAddr>>
    /\ TEST_EMAIL_MAP # EmptyMap
    /\ email_list_location = ""
    /\ event \in Events
    /\ today \in Moments
    /\ TEST_START_DATE \in {EmptyStr, <<"date", 5>>}
    /\ summary_only = {}

NextDate == Validate

SpecDate == InitDate /\ [][NextDate]_vars

\* ======================================================================
\* Runs with every setting of the two relays
\* ======================================================================
InitFailover ==
    /\ InitRun
    /\ MAIL_FROM = "sender"
    /\ prefixes_ok = <<TRUE, TRUE, TRUE>>
    /\ TEST_MODE
    /\ TEST_EMAIL_MAP # EmptyMap
    /\ email_list_location = ""
    /\ event = NoEvent
    /\ today = <<FirstDay + 2, 0>>
    /\ TEST_START_DATE = EmptyStr
    /\ summary_only = {}

SpecFailover == InitFailover /\ [][Next]_vars

\* ======================================================================
\* Properties
\* ======================================================================
DeliveryError == "RuntimeError: All SMTP hosts failed"

\* The scan of every discovered agency has completed.
ScanComplete ==
    \/ pc \in {"email", "reports", "no_data", "default_list", "done"}
    \/ pc = "aborted" /\ error = DeliveryError

Terminated == pc \in {"done", "aborted"}

\* What the scan collected for a tenant.
HasAttachments(a) == a \in DOMAIN agency_attachments /\ agency_attachments[a] # <<>>
HasFragments(a) == a \in DOMAIN agency_summary_text /\ agency_summary_text[a] # <<>>
Tenants == Range(agencies)

\* No artifact of either class for any of the (at least one) discovered tenants.
NothingAnywhere ==
    /\ agencies # <<>>
    /\ \A a \in Tenants : ~HasAttachments(a) /\ ~HasFragments(a)

\* The addresses explicitly mapped to a tenant in the active map.
ExplicitList(a) ==
    IF a \in DOMAIN active_map
    THEN SelectSeq(active_map[a], LAMBDA x : x # Blank)
    ELSE <<>>

AttemptsOfKind(kind) == SelectSeq(attempts, LAMBDA m : m.kind = kind)
AttemptsFor(kind, a) == SelectSeq(attempts, LAMBDA m : m.kind = kind /\ m.agency = a)
Count(kind) == Len(AttemptsOfKind(kind))

\* A delivery of a REPORT or of a TENANT_NO_DATA notice was exhausted.
TenantDeliveryFailed ==
    \E k \in DOMAIN attempts :
        attempts[k].kind \in {"REPORT", "TENANT_NO_DATA"} /\ ~attempts[k].ok

\* Display names of the tenants without attachments / without fragments, in
\* discovery order.
DisplayMissingAttachments ==
    MapSeq(normalize_agency_for_subject, SelectSeq(agencies, LAMBDA a : ~HasAttachments(a)))
DisplayMissingFragments ==
    MapSeq(normalize_agency_for_subject, SelectSeq(agencies, LAMBDA a : ~HasFragments(a)))

\* ---------------------------------------------------------------- C1
\* C1: when at least one tenant is discovered and no tenant has attachments or
\* fragments, no REPORT, TENANT_NO_DATA or aggregate notification is ever
\* attempted, and the finished run has attempted exactly one SYSTEM_OUTAGE
\* notification if the fallback list is non-empty and none if it is empty.
C1_OutageOnly ==
    (ScanComplete /\ NothingAnywhere) =>
        /\ Count("REPORT") = 0
        /\ Count("TENANT_NO_DATA") = 0
        /\ Count("FALLBACK_NO_DATA_SUMMARY") = 0
        /\ Count("SYSTEM_OUTAGE") <= 1
        /\ Terminated =>
             Count("SYSTEM_OUTAGE") = (IF DEFAULT_EMAIL_TO_LIST # <<>> THEN 1 ELSE 0)

C1_Witness ==
    /\ pc = "done"
    /\ NothingAnywhere
    /\ Len(agencies) = 2
    /\ \E a \in Tenants : ExplicitList(a) # <<>>
    /\ Count("SYSTEM_OUTAGE") = 1
    /\ attempts[1].bcc = DEFAULT_EMAIL_TO_LIST

\* ---------------------------------------------------------------- C2
\* C2: after the scan the run takes the outage branch exactly when the tenant
\* set is non-empty and every tenant lacks attachments and lacks fragments;
\* all tenants lacking attachments with one fragment somewhere is NORMAL.
C2_OutageIff ==
    ScanComplete => (no_data_all_case <=> NothingAnywhere)

C2_Witness ==
    /\ pc = "email"
    /\ agencies # <<>>
    /\ \A a \in Tenants : ~HasAttachments(a)
    /\ \E a \in Tenants : HasFragments(a)
    /\ \E a \in Tenants : ~HasFragments(a)
    /\ ~no_data_all_case

\* ---------------------------------------------------------------- C3
AggregateDue ==
    /\ ScanComplete
    /\ ~NothingAnywhere
    /\ \E a \in Tenants : ~HasAttachments(a)
    /\ DEFAULT_EMAIL_TO_LIST # <<>>

AggregateWellFormed(m) ==
    /\ m.bcc = DEFAULT_EMAIL_TO_LIST
    /\ m.body[1] = <<"NO DATA DETAILS", DisplayMissingAttachments>>
    /\ m.body[2] = <<"SUMMARY NO DATA DETAILS",
                     IF DisplayMissingFragments # <<>> THEN DisplayMissingFragments
                     ELSE <<"None">>>>

\* C3 as stated: every finished NORMAL run with a tenant lacking attachments and
\* a non-empty fallback list has attempted exactly one aggregate notification.
C3_Original ==
    (AggregateDue /\ Terminated) =>
        /\ Count("FALLBACK_NO_DATA_SUMMARY") = 1
        /\ AggregateWellFormed(AttemptsOfKind("FALLBACK_NO_DATA_SUMMARY")[1])

\* C3 (amended): in a NORMAL run with a tenant lacking attachments and a
\* non-empty fallback list, at most one aggregate notification is attempted, it
\* goes to the fallback list and lists every tenant lacking attachments and,
\* separately, every tenant lacking fragments; exactly one is attempted unless
\* the run was aborted by the exhausted delivery of an earlier REPORT or
\* TENANT_NO_DATA notification -- whatever number of TENANT_NO_DATA notices
\* was sent, also when every tenant lacks attachments.
C3_AggregateUnlessAborted ==
    AggregateDue =>
        /\ Count("FALLBACK_NO_DATA_SUMMARY") <= 1
        /\ \A k \in DOMAIN attempts :
              attempts[k].kind = "FALLBACK_NO_DATA_SUMMARY" => AggregateWellFormed(attempts[k])
        /\ (Terminated /\ ~TenantDeliveryFailed) => Count("FALLBACK_NO_DATA_SUMMARY") = 1

C3_Witness ==
    /\ pc = "done"
    /\ AggregateDue
    /\ \A a \in Tenants : ~HasAttachments(a)
    /\ \E a \in Tenants : ~HasFragments(a)
    /\ Count("TENANT_NO_DATA") >= 1
    /\ Count("FALLBACK_NO_DATA_SUMMARY") = 1
    /\ attempts[Len(attempts)].kind = "FALLBACK_NO_DATA_SUMMARY"
    /\ attempts[Len(attempts)].ok

\* ---------------------------------------------------------------- C4
NoDataDue(a) == ~HasAttachments(a) /\ ExplicitList(a) # <<>>

\* C4 as stated: in every finished NORMAL run a TENANT_NO_DATA notification was
\* attempted for a tenant iff it has no attachments and an explicit mapping.
C4_Original ==
    (ScanComplete /\ ~NothingAnywhere /\ Terminated) =>
        \A a \in Tenants : (AttemptsFor("TENANT_NO_DATA", a) # <<>>) <=> NoDataDue(a)

\* C4 (amended): in a NORMAL run a TENANT_NO_DATA notification is attempted for
\* a tenant only if the tenant has no attachments and a non-empty explicit
\* mapping, it is addressed to exactly that explicit list, and a run that
\* returns has attempted one for every such tenant.
C4_NoDataIffExplicit ==
    (ScanComplete /\ ~NothingAnywhere) =>
        \A a \in Tenants :
            /\ AttemptsFor("TENANT_NO_DATA", a) # <<>> => NoDataDue(a)
            /\ \A k \in DOMAIN attempts :
                  (attempts[k].kind = "TENANT_NO_DATA" /\ attempts[k].agency = a)
                      => attempts[k].bcc = ExplicitList(a)
            /\ pc = "done" => (NoDataDue(a) => AttemptsFor("TENANT_NO_DATA", a) # <<>>)

C4_Witness ==
    /\ pc = "done"
    /\ DEFAULT_EMAIL_TO_LIST # <<>>
    /\ \E a, b \in Tenants :
          /\ ~HasAttachments(a) /\ ExplicitList(a) # <<>>
          /\ AttemptsFor("TENANT_NO_DATA", a) # <<>>
          /\ ~HasAttachments(b) /\ ExplicitList(b) = <<>>
          /\ AttemptsFor("TENANT_NO_DATA", b) = <<>>

\* ---------------------------------------------------------------- C5
\* An iteration of the REPORT loop that skips a tenant with attachments because
\* neither an explicit mapping nor the fallback list gives a recipient.
ReportSkipped ==
    /\ pc = "reports"
    /\ HasAttachments(attachment_keys[idx])
    /\ ExplicitList(attachment_keys[idx]) = <<>>
    /\ DEFAULT_EMAIL_TO_LIST = <<>>
    /\ <<pc, idx>>' # <<pc, idx>>

\* C5: a REPORT skipped for want of recipients is counted: the step that skips
\* it changes one of the run's counters.
C5_SkipCounted == [][ReportSkipped => counters' # counters]_vars

\* ---------------------------------------------------------------- C6
\* C6: each tenant is the subject of at most one tenant-level notification
\* (REPORT or TENANT_NO_DATA), and at most one system-wide notification
\* (SYSTEM_OUTAGE or the aggregate) is attempted in a run.
C6_AtMostOne ==
    /\ \A a \in Tenants :
          Len(AttemptsFor("REPORT", a)) + Len(AttemptsFor("TENANT_NO_DATA", a)) <= 1
    /\ Count("SYSTEM_OUTAGE") + Count("FALLBACK_NO_DATA_SUMMARY") <= 1

C6_Witness ==
    /\ pc = "done"
    /\ Len(agencies) = 2
    /\ Count("REPORT") = 1
    /\ Count("TENANT_NO_DATA") = 1
    /\ Count("FALLBACK_NO_DATA_SUMMARY") = 1
    /\ \A a \in Tenants : ExplicitList(a) # <<>>

\* ---------------------------------------------------------------- C7
\* C7: a tenant with at least one attachment is never the subject of a
\* TENANT_NO_DATA notification and is never listed as missing attachments in
\* the aggregate notification.
C7_ReportTenantNeverNoData ==
    \A a \in Tenants :
        HasAttachments(a) =>
            /\ AttemptsFor("TENANT_NO_DATA", a) = <<>>
            /\ \A k \in DOMAIN attempts :
                  attempts[k].kind = "FALLBACK_NO_DATA_SUMMARY" =>
                      normalize_agency_for_subject(a) \notin Range(attempts[k].body[1][2])

C7_Witness ==
    /\ Count("FALLBACK_NO_DATA_SUMMARY") = 1
    /\ Count("TENANT_NO_DATA") = 1
    /\ \E a \in Tenants : HasAttachments(a) /\ ExplicitList(a) # <<>> /\ ~HasFragments(a)

\* ---------------------------------------------------------------- C8
\* C8: every REPORT attempt precedes every TENANT_NO_DATA attempt, and no
\* REPORT or TENANT_NO_DATA attempt follows the aggregate attempt.
C8_SendOrder ==
    \A i, j \in DOMAIN attempts :
        i < j =>
            /\ ~(attempts[i].kind = "TENANT_NO_DATA" /\ attempts[j].kind = "REPORT")
            /\ ~(attempts[i].kind = "FALLBACK_NO_DATA_SUMMARY"
                   /\ attempts[j].kind \in {"REPORT", "TENANT_NO_DATA"})

C8_Witness ==
    /\ Len(attempts) = 3
    /\ attempts[1].kind = "REPORT"
    /\ attempts[2].kind = "TENANT_NO_DATA"
    /\ attempts[3].kind = "FALLBACK_NO_DATA_SUMMARY"

\* ---------------------------------------------------------------- C9
Sent == last_send # NoSend

\* C9: the send succeeds through the first configured host whose send does not
\* raise and that host is the last one attempted; with both hosts configured,
\* the first raising and the second completing, it succeeds via the second.
C9_FirstSuccessReturns ==
    Sent =>
        /\ \A k \in 1..2 :
              (/\ HostList[k] # "" /\ last_send.outcome[k]
               /\ \A j \in 1..(k - 1) : HostList[j] = "" \/ ~last_send.outcome[j])
              => /\ last_send.success
                 /\ last_send.host_used = HostList[k]
                 /\ last_send.tried[Len(last_send.tried)] = HostList[k]
        /\ (SMTP_HOST_1 # "" /\ SMTP_HOST_2 # "" /\ last_send.outcome = <<FALSE, TRUE>>)
              => (last_send.success /\ last_send.host_used = SMTP_HOST_2)

C9_Witness ==
    /\ Sent
    /\ SMTP_HOST_1 # "" /\ SMTP_HOST_2 # ""
    /\ last_send.outcome = <<FALSE, TRUE>>
    /\ last_send.success
    /\ last_send.host_used = SMTP_HOST_2
    /\ attempts[Len(attempts)].ok

\* ---------------------------------------------------------------- C10
\* C10: within one send no host is attempted twice, SMTP_HOST_1 is attempted
\* before SMTP_HOST_2, and an empty host is never attempted.
C10_HostsOnceInOrder ==
    Sent =>
        /\ \A i, j \in DOMAIN last_send.tried : i # j => last_send.tried[i] # last_send.tried[j]
        /\ \A i \in DOMAIN last_send.tried : last_send.tried[i] # ""
        /\ \A i, j \in DOMAIN last_send.tried :
              (last_send.tried[i] = SMTP_HOST_1 /\ last_send.tried[j] = SMTP_HOST_2) => i < j

C10_Witness ==
    /\ Sent
    /\ last_send.tried = <<"host1", "host2">>
    /\ ~last_send.success

\* ---------------------------------------------------------------- C11
\* C11: when every configured host raises for a notification, the send fails
\* with one error holding one message per attempted host, in the order of the
\* attempts; the run is aborted with that error and returns no result, and the
\* failed notification is the last one attempted in the run.
C11_ExhaustionAborts ==
    (Sent /\ ~last_send.success) =>
        /\ last_send.errors = last_send.tried
        /\ last_send.tried = SelectSeq(HostList, LAMBDA h : h # "")
        /\ pc = "aborted"
        /\ error = DeliveryError
        /\ result = NoResult
        /\ ~attempts[Len(attempts)].ok
        /\ \A k \in DOMAIN attempts : ~attempts[k].ok => k = Len(attempts)

C11_Witness ==
    /\ pc = "aborted"
    /\ last_send.tried = <<"host1", "host2">>
    /\ last_send.errors = <<"host1", "host2">>
    /\ Len(attempts) = 2
    /\ attempts[1].kind = "REPORT" /\ attempts[1].ok
    /\ attempts[2].kind = "TENANT_NO_DATA" /\ ~attempts[2].ok
    /\ AggregateDue
    /\ Count("FALLBACK_NO_DATA_SUMMARY") = 0
    /\ result = NoResult

\* ---------------------------------------------------------------- C12
\* The configuration the handler rejects: no sender address, no relay host, or
\* a path prefix that does not end with '/'.
BadConfig ==
    \/ MAIL_FROM = ""
    \/ SMTP_HOST_1 = "" /\ SMTP_HOST_2 = ""
    \/ \E k \in 1..3 : ~prefixes_ok[k]

\* C12: with a rejected configuration the run aborts with a fatal error in its
\* first step, no object-store call (map load, prefix listing, key listing,
\* fetch) was made, no delivery was attempted and no result is returned.
C12_ValidationFirst ==
    BadConfig =>
        /\ pc \in {"validate", "aborted"}
        /\ pc = "aborted" => error \in {"ValueError: MAIL_FROM", "ValueError: SMTP_HOST",
                                        "ValueError: prefixes"}
        /\ store_calls = {}
        /\ attempts = <<>>
        /\ result = NoResult

C12_Witness ==
    /\ pc = "aborted"
    /\ error = "ValueError: prefixes"
    /\ MAIL_FROM # "" /\ SMTP_HOST_1 # ""
    /\ ~TEST_MODE /\ email_list_location # ""
    /\ store_calls = {}

\* ---------------------------------------------------------------- C13
MapLoadFailures == {"unreachable", "malformed", "non_object"}
PastMapLoad == pc \notin {"validate", "load_map"} /\ map_load # "not_loaded"
AbortedByMapError ==
    /\ pc = "aborted"
    /\ error = "recipient map error"
    /\ attempts = <<>>
    /\ result = NoResult

\* C13 as stated: in production mode a map that cannot be obtained -- location
\* unreachable, malformed JSON, non-object top level or location not
\* configured -- aborts the run, and a run goes on with an empty map only
\* after a successful load of an empty map.
C13_Original ==
    (~TEST_MODE /\ PastMapLoad) =>
        /\ map_load \in MapLoadFailures \cup {"location_not_set"} => AbortedByMapError
        /\ (active_map = EmptyMap /\ ~AbortedByMapError) => map_load = "loaded"

\* C13 (amended): in production mode an unreachable location, malformed JSON
\* or a non-object top level aborts the run; a run goes on with an empty map
\* only when an empty map was loaded or when no map location is configured.
C13_MapErrorsFatal ==
    (~TEST_MODE /\ PastMapLoad) =>
        /\ map_load \in MapLoadFailures => AbortedByMapError
        /\ (active_map = EmptyMap /\ ~AbortedByMapError) =>
              map_load \in {"loaded", "location_not_set"}
        /\ map_load = "location_not_set" => (active_map = EmptyMap /\ ~AbortedByMapError)

C13_Witness ==
    /\ ~TEST_MODE
    /\ pc = "aborted"
    /\ map_load = "malformed"
    /\ store_calls = {"get_object:map"}
    /\ AbortedByMapError

\* ---------------------------------------------------------------- C14
\* The traversal and the fetches of both roots have been done for tenant a.
Scanned(a) ==
    /\ a \in Range(attachment_keys) \cup Range(agencies_no_ranked)
    /\ a \in DOMAIN agency_summary_text

\* C14: a delivery is attempted only after every discovered tenant has been
\* scanned under both roots; while the scan is under way nothing has been
\* attempted, and a run ended by a storage read error has attempted no
\* notification and returns no result.
C14_NoDeliveryBeforeScanEnd ==
    /\ attempts # <<>> => \A a \in Tenants : Scanned(a)
    /\ pc \in {"discover", "scan_ranked", "scan_summary"} => attempts = <<>>
    /\ error = "storage error" =>
          /\ pc = "aborted"
          /\ attempts = <<>>
          /\ result = NoResult

C14_Witness ==
    /\ pc = "aborted"
    /\ error = "storage error"
    /\ Len(agencies) = 2
    /\ idx = 2
    /\ HasAttachments(agencies[1])
    /\ ExplicitList(agencies[1]) # <<>>
    /\ "get_object:ranked" \in store_calls
    /\ attempts = <<>>

\* ---------------------------------------------------------------- C15
ZeroResult ==
    [status |-> "ok",
     report_emails_sent |-> 0,
     agency_no_data_emails_sent |-> 0,
     default_missing_list_sent |-> 0,
     agencies_total |-> 0,
     agencies_no_ranked |-> 0,
     agencies_no_summary |-> 0]

\* C15: when no tenant is discovered the run does not take the outage branch,
\* attempts no notification of any kind (whatever the fallback list is), is not
\* aborted, and the result it returns has every count at zero.
C15_NoTenants ==
    (ScanComplete /\ agencies = <<>>) =>
        /\ ~no_data_all_case
        /\ attempts = <<>>
        /\ pc # "aborted"
        /\ pc = "done" => result = ZeroResult

C15_Witness ==
    /\ pc = "done"
    /\ agencies = <<>>
    /\ DEFAULT_EMAIL_TO_LIST # <<>>
    /\ attempts = <<>>
    /\ result = ZeroResult

\* ---------------------------------------------------------------- C16
EveryTenantHasAttachments == \A a \in Tenants : HasAttachments(a)

\* C16: when every discovered tenant has at least one attachment the run does
\* not take the outage branch and attempts no TENANT_NO_DATA, no aggregate and
\* no SYSTEM_OUTAGE notification, whatever the fragments and the recipient
\* mappings are.
C16_AllHaveAttachments ==
    (ScanComplete /\ EveryTenantHasAttachments) =>
        /\ ~no_data_all_case
        /\ Count("TENANT_NO_DATA") = 0
        /\ Count("FALLBACK_NO_DATA_SUMMARY") = 0
        /\ Count("SYSTEM_OUTAGE") = 0

C16_Witness ==
    /\ pc = "done"
    /\ Len(agencies) = 2
    /\ EveryTenantHasAttachments
    /\ \E a \in Tenants : ~HasFragments(a)
    /\ \E a \in Tenants : ExplicitList(a) # <<>>
    /\ \E a \in Tenants : ExplicitList(a) = <<>>
    /\ DEFAULT_EMAIL_TO_LIST # <<>>
    /\ Count("REPORT") = 2
    /\ Len(attempts) = 2

\* ---------------------------------------------------------------- C17
\* The discovery positions of a sequence of fragments.
Positions(blocks) == [k \in DOMAIN blocks |-> blocks[k].label[2]]
NoLaterBeforeEarlier(blocks) ==
    \A i, j \in DOMAIN blocks : i < j => Positions(blocks)[i] <= Positions(blocks)[j]

\* The fragments of a flat body, in the order of the body.
RECURSIVE FlatFragments(_)
FlatFragments(body) ==
    IF body = <<>> THEN <<>>
    ELSE (IF Head(body)[1] = "SUMMARY REPORTS" THEN Head(body)[2] ELSE <<>>)
            \o FlatFragments(Tail(body))

\* The fragments of a body made of DIPS / SIPS sections, in the order of the body.
GroupedFragments(body) == Flatten(MapSeq(LAMBDA sec : sec.blocks, body))

\* Every flat body sent for a tenant holds the tenant's fragments in the order
\* in which the traversal found them.
FlatBodiesInDiscoveryOrder ==
    \A k \in DOMAIN attempts :
        attempts[k].kind \in {"REPORT", "TENANT_NO_DATA"} =>
            /\ FlatFragments(attempts[k].body) = SummaryOf(attempts[k].agency)
            /\ \A i, j \in DOMAIN FlatFragments(attempts[k].body) :
                  i < j => Positions(FlatFragments(attempts[k].body))[i]
                               < Positions(FlatFragments(attempts[k].body))[j]

\* C17 as stated: no composed body, flat or grouped into DIPS and SIPS
\* sections, has a later-discovered fragment before an earlier-discovered one.
C17_Original ==
    /\ FlatBodiesInDiscoveryOrder
    /\ report_body # NoBody => NoLaterBeforeEarlier(GroupedFragments(report_body))

\* C17 (amended): a flat body lists the tenant's fragments in discovery order;
\* a body grouped into DIPS and SIPS sections lists, within each section, the
\* fragments carrying that section's token in discovery order, the DIPS
\* section standing before the SIPS section.
C17_OrderWithinSections ==
    /\ FlatBodiesInDiscoveryOrder
    /\ report_body # NoBody =>
          /\ \A n \in DOMAIN report_body : NoLaterBeforeEarlier(report_body[n].blocks)
          /\ report_body[1].blocks =
                SelectSeq(SummaryOf(attachment_keys[1]), LAMBDA it : "DIPS" \in it.label[3])
          /\ report_body[3].blocks =
                SelectSeq(SummaryOf(attachment_keys[1]), LAMBDA it : "SIPS" \in it.label[3])

C17_Witness ==
    /\ report_body # NoBody
    /\ Len(report_body[1].blocks) = 2
    /\ Len(report_body[3].blocks) = 1
    /\ report_body[3].blocks[1].label[2] < report_body[1].blocks[1].label[2]
    /\ Len(attempts) = 1
    /\ attempts[1].kind = "REPORT"
    /\ Len(FlatFragments(attempts[1].body)) = 3

\* ---------------------------------------------------------------- C18
FooterLast(body) ==
    /\ body # <<>>
    /\ body[Len(body)] = EMAIL_FOOTER
    /\ \A k \in 1..(Len(body) - 1) : body[k] # EMAIL_FOOTER

\* C18: in the body of every notification attempted, of whatever kind, the
\* shared footer is the last element and occurs nowhere before it.
C18_FooterLast ==
    \A k \in DOMAIN attempts : FooterLast(attempts[k].body)

C18_Witness ==
    /\ Len(attempts) = 3
    /\ attempts[1].kind = "REPORT" /\ Len(attempts[1].body) = 2
    /\ attempts[2].kind = "TENANT_NO_DATA" /\ Len(attempts[2].body) = 3
    /\ attempts[3].kind = "FALLBACK_NO_DATA_SUMMARY"
    /\ \A k \in 1..3 : FooterLast(attempts[k].body)

\* ---------------------------------------------------------------- C19
\* o is the address text of the raw element x.
IsTextOf(o, x) == Len(o) = 2 /\ o[1] = x[1] /\ o[2] = x[2]
BlankText(x) == x[1] = ""
\* The n-th smallest member of a set of positions.
Nth(S, n) == CHOOSE j \in S : Cardinality({i \in S : i <= j}) = n

\* C19: in the map loaded from a JSON object the keys are those of the
\* document; a non-blank string value has become the one-element list of its
\* text, a list value the list of its non-blank elements in their order, and a
\* blank string or a value of any other type the empty list.
C19_ValuesNormalized ==
    (map_load = "loaded" /\ email_doc.kind = "object") =>
        /\ DOMAIN active_map = DOMAIN email_doc.raw
        /\ \A k \in DOMAIN email_doc.raw :
              LET rv == email_doc.raw[k]
                  out == active_map[k]
                  kept == {j \in DOMAIN rv.v : ~BlankText(rv.v[j])}
              IN CASE rv.t = "str" ->
                        IF BlankText(rv.v[1]) THEN out = <<>>
                        ELSE Len(out) = 1 /\ IsTextOf(out[1], rv.v[1])
                   [] rv.t = "list" ->
                        /\ Len(out) = Cardinality(kept)
                        /\ \A n \in DOMAIN out : IsTextOf(out[n], rv.v[Nth(kept, n)])
                   [] OTHER -> out = <<>>

C19_Witness ==
    /\ pc = "discover"
    /\ email_doc.kind = "object"
    /\ DOMAIN email_doc.raw = {Folder(1), Folder(2)}
    /\ email_doc.raw[Folder(1)] = [t |-> "list", v |-> <<Blank, <<"dl", 1, "padded">>>>]
    /\ active_map[Folder(1)] = <<ExplicitAddr(1)>>
    /\ email_doc.raw[Folder(2)].t = "other"
    /\ active_map[Folder(2)] = <<>>

\* ---------------------------------------------------------------- C20
\* The listing of the tenant's prefix returned no child under the root.
LeaflessUnder(root, a) == <<root, a>> \in leafless

\* C20: a discovered tenant whose prefix has no leaf partition remains a
\* tenant of the run; once scanned it has no attachments and no fragments, it
\* is on the missing-attachments and on the missing-fragments list, every
\* aggregate notification names it on both lines, and the returned result
\* counts it in the tenants total and in both missing counts.
C20_LeaflessTenantCounted ==
    \A a \in Tenants :
        (Scanned(a) /\ LeaflessUnder("ranked", a) /\ LeaflessUnder("summary", a)) =>
            /\ ~HasAttachments(a) /\ ~HasFragments(a)
            /\ Len(SelectSeq(agencies_no_ranked, LAMBDA x : x = a)) = 1
            /\ Len(SelectSeq(agencies_no_summary, LAMBDA x : x = a)) = 1
            /\ \A k \in DOMAIN attempts :
                  attempts[k].kind = "FALLBACK_NO_DATA_SUMMARY" =>
                      /\ normalize_agency_for_subject(a) \in Range(attempts[k].body[1][2])
                      /\ normalize_agency_for_subject(a) \in Range(attempts[k].body[2][2])
            /\ pc = "done" =>
                  /\ result.agencies_total = Len(agencies)
                  /\ result.agencies_no_ranked = Len(agencies_no_ranked)
                  /\ result.agencies_no_summary = Len(agencies_no_summary)

C20_Witness ==
    /\ pc = "done"
    /\ Len(agencies) = 2
    /\ LeaflessUnder("ranked", agencies[1]) /\ LeaflessUnder("summary", agencies[1])
    /\ HasAttachments(agencies[2])
    /\ Count("FALLBACK_NO_DATA_SUMMARY") = 1
    /\ result.agencies_total = 2
    /\ result.agencies_no_ranked = 1

\* ---------------------------------------------------------------- C21
DeliveredOfKind(kind) == Len(SelectSeq(attempts, LAMBDA m : m.kind = kind /\ m.ok))

SendCountFields ==
    {"report_emails_sent", "agency_no_data_emails_sent", "default_missing_list_sent"}

\* The three tenant counts of a result agree with what the scan collected.
TenantCountsRight ==
    /\ {"agencies_total", "agencies_no_ranked", "agencies_no_summary"} \subseteq DOMAIN result
    /\ result.agencies_total = Cardinality(Tenants)
    /\ result.agencies_no_ranked = Cardinality({a \in Tenants : ~HasAttachments(a)})
    /\ result.agencies_no_summary = Cardinality({a \in Tenants : ~HasFragments(a)})
    /\ result.agencies_total =
          Cardinality({a \in Tenants : HasAttachments(a)}) + result.agencies_no_ranked

\* The three delivery counts of a result agree with the deliveries of the run.
SendCountsRight ==
    /\ SendCountFields \subseteq DOMAIN result
    /\ result.report_emails_sent = DeliveredOfKind("REPORT")
    /\ result.agency_no_data_emails_sent = DeliveredOfKind("TENANT_NO_DATA")
    /\ result.default_missing_list_sent \in {0, 1}
    /\ result.default_missing_list_sent = DeliveredOfKind("FALLBACK_NO_DATA_SUMMARY")

\* C21: the result of every run that returns holds the three delivery counts
\* (REPORT and TENANT_NO_DATA notifications delivered, aggregate notification
\* delivered 0 or 1) and the three tenant counts (discovered, without
\* attachments, without fragments), each equal to the events of the run, and
\* the total is the tenants with attachments plus those without.
C21_AllCountsReported ==
    pc = "done" => (SendCountsRight /\ TenantCountsRight)

\* ---------------------------------------------------------------- C22
\* The state of a tenant as the e-mail section sees it: the REPORT loop goes
\* over attachment_keys, the NO DATA loop over agencies_no_ranked, and the
\* summary section of a notice is there when the tenant has summary text.
StatesOf(a) ==
    (IF a \in Range(attachment_keys) THEN {"HAS_REPORT"} ELSE {})
    \cup (IF a \in Range(agencies_no_ranked) /\ a \notin Range(agencies_no_summary)
          THEN {"NO_ATTACHMENTS_HAS_SUMMARY"} ELSE {})
    \cup (IF a \in Range(agencies_no_ranked) /\ a \in Range(agencies_no_summary)
          THEN {"NO_ATTACHMENTS_NO_SUMMARY"} ELSE {})

Occurrences(q, a) == Cardinality({k \in DOMAIN q : q[k] = a})

\* C22: once the scan is complete every discovered tenant is in exactly one
\* state: HAS_REPORT iff it has an attachment (with or without fragments),
\* otherwise NO_ATTACHMENTS_HAS_SUMMARY iff it has a fragment, and
\* NO_ATTACHMENTS_NO_SUMMARY otherwise.
C22_OneStatePerTenant ==
    ScanComplete =>
        \A a \in Tenants :
            /\ Cardinality(StatesOf(a)) = 1
            /\ Occurrences(attachment_keys, a) + Occurrences(agencies_no_ranked, a) = 1
            /\ "HAS_REPORT" \in StatesOf(a) <=> HasAttachments(a)
            /\ "NO_ATTACHMENTS_HAS_SUMMARY" \in StatesOf(a)
                  <=> (~HasAttachments(a) /\ HasFragments(a))
            /\ "NO_ATTACHMENTS_NO_SUMMARY" \in StatesOf(a)
                  <=> (~HasAttachments(a) /\ ~HasFragments(a))

C22_Witness ==
    /\ pc = "email"
    /\ \E a, b \in Tenants :
          /\ StatesOf(a) = {"HAS_REPORT"} /\ ~HasFragments(a)
          /\ StatesOf(b) = {"NO_ATTACHMENTS_HAS_SUMMARY"}

\* ---------------------------------------------------------------- C23
\* The text objects listed for a tenant under the summary root, in listing order.
TextObjectsOf(a) ==
    SelectSeq(Flatten(summary_listing[a]), LAMBDA o : Lower(o.suffix) = ".txt")

WhitespaceOnly(body) == \A k \in DOMAIN body : body[k] \in Whitespace

\* C23: a text object whose content is empty or whitespace-only is not
\* recorded as a fragment, every other text object is; a tenant all of whose
\* text objects are empty or whitespace-only has no fragment, is counted as
\* missing fragments just as a tenant without text objects is, and, lacking
\* attachments too, makes the run of which it is the only tenant an outage.
C23_BlankTextDropped ==
    \A a \in DOMAIN summary_listing :
        LET texts == TextObjectsOf(a) IN
        /\ Len(agency_summary_text[a])
              = Cardinality({k \in DOMAIN texts : ~WhitespaceOnly(texts[k].body)})
        /\ \A k \in DOMAIN agency_summary_text[a] : agency_summary_text[a][k].content # <<>>
        /\ (\A k \in DOMAIN texts : WhitespaceOnly(texts[k].body)) =>
              /\ ~HasFragments(a)
              /\ Occurrences(agencies_no_summary, a) = 1
              /\ (ScanComplete /\ ~HasAttachments(a)) => no_data_all_case
              /\ (pc = "done" /\ ~HasAttachments(a)) => result.status = "no_data_all"

C23_Witness ==
    /\ pc = "done"
    /\ result.status = "no_data_all"
    /\ \E a \in DOMAIN summary_listing :
          /\ TextObjectsOf(a) # <<>>
          /\ TextObjectsOf(a)[1].body = <<"CR", "LF">>
          /\ a \in Range(agencies_no_summary)

\* ---------------------------------------------------------------- C24
LeadWithSummary == <<"no report data; summary included below">>
LeadWithoutSummary == <<"no report data and no summary report">>

IsSummarySection(part) == part[1] = "SUMMARY REPORTS"

\* C24: the body of a TENANT_NO_DATA notification starts with one of two
\* fixed lead sentences, the one for a tenant with fragments exactly when the
\* tenant has a fragment; it holds the summary section, with the tenant's
\* fragments, exactly when the tenant has a fragment, and ends with the footer.
C24_NoDataBody ==
    \A k \in DOMAIN attempts :
        attempts[k].kind = "TENANT_NO_DATA" =>
            LET body == attempts[k].body
                a == attempts[k].agency
            IN /\ body[1] \in {LeadWithSummary, LeadWithoutSummary}
               /\ body[1] = LeadWithSummary <=> HasFragments(a)
               /\ (\E j \in DOMAIN body : IsSummarySection(body[j])) <=> HasFragments(a)
               /\ HasFragments(a) =>
                     /\ Len(body) = 3
                     /\ body[2] = <<"SUMMARY REPORTS", agency_summary_text[a]>>
               /\ ~HasFragments(a) => Len(body) = 2
               /\ body[Len(body)] = EMAIL_FOOTER

C24_Witness ==
    /\ Count("TENANT_NO_DATA") = 2
    /\ attempts[1].body[1] # attempts[2].body[1]
    /\ \E k \in 1..2 : Len(attempts[k].body) = 3 /\ IsSummarySection(attempts[k].body[2])

\* ---------------------------------------------------------------- C25
\* The subject templates, by kind, display name and date.
SubjectFor(kind, display, date) ==
    CASE kind = "REPORT" -> <<"Weekly Report", display>>
      [] kind = "TENANT_NO_DATA" -> <<"Weekly Report - NO DATA", display>>
      [] kind = "SYSTEM_OUTAGE" -> <<"Weekly Report - NO DATA (ALL AGENCIES) start_date=", date>>
      [] OTHER -> <<"Weekly Report - NO DATA (start_date=)", date>>

\* C25: the subject of every notification is the one its kind, the display
\* name of its tenant and the date of the run give, whatever attachments and
\* fragments were found: runs that agree on these have the same subjects.
C25_SubjectByKindNameDate ==
    \A k \in DOMAIN attempts :
        attempts[k].subject =
            SubjectFor(attempts[k].kind, normalize_agency_for_subject(attempts[k].agency),
                       start_date)

C25_Witness ==
    /\ Len(attempts) = 3
    /\ attempts[1].kind = "REPORT"
    /\ attempts[1].attachments # <<>>
    /\ Len(attempts[1].body) = 2
    /\ attempts[2].kind = "TENANT_NO_DATA"
    /\ attempts[2].agency.ns
    /\ attempts[3].kind = "FALLBACK_NO_DATA_SUMMARY"
    /\ attempts[3].subject[2] = <<"date", 2>>

\* ---------------------------------------------------------------- C26
\* The addresses explicitly mapped to a tenant in a map.
ExplicitIn(map, a) ==
    IF a \in DOMAIN map THEN SelectSeq(map[a], LAMBDA x : x # Blank) ELSE <<>>

\* The recipient source of the mode: the static test map, or what the
\* document fetched from the store holds (nothing when none was fetched).
SourceMap ==
    IF TEST_MODE THEN TEST_EMAIL_MAP
    ELSE IF email_doc.kind = "object" THEN NormalizeMap(email_doc.raw) ELSE EmptyMap

\* The handler got past the choice of the active map.
MapChosen == map_load \in {"test_env", "location_not_set", "loaded"}

\* C26: in test mode the recipient map is never fetched from the store and
\* every explicit lookup is answered from the static test map alone; in
\* production mode every explicit lookup is answered from the fetched map
\* alone; in both modes a REPORT without explicit recipients goes to the
\* fallback list and the system-wide notifications go to the fallback list.
C26_SourceByMode ==
    /\ TEST_MODE =>
          /\ "get_object:map" \notin store_calls
          /\ map_load \in {"not_loaded", "test_env"}
          /\ email_doc = NoDoc
    /\ MapChosen => active_map = SourceMap
    /\ \A k \in DOMAIN attempts :
          LET m == attempts[k]
              explicit == ExplicitIn(SourceMap, m.agency)
          IN /\ m.kind = "REPORT" =>
                   m.bcc = (IF explicit # <<>> THEN explicit ELSE DEFAULT_EMAIL_TO_LIST)
             /\ m.kind = "TENANT_NO_DATA" => (explicit # <<>> /\ m.bcc = explicit)
             /\ m.kind \in {"SYSTEM_OUTAGE", "FALLBACK_NO_DATA_SUMMARY"} =>
                   m.bcc = DEFAULT_EMAIL_TO_LIST
    /\ (pc = "done" /\ result.status = "ok") =>
          \A a \in Tenants :
              (~HasAttachments(a) /\ ExplicitIn(SourceMap, a) # <<>>)
                  => AttemptsFor("TENANT_NO_DATA", a) # <<>>

C26_Witness ==
    /\ pc = "done"
    /\ TEST_MODE
    /\ email_list_location = "s3key"
    /\ Count("TENANT_NO_DATA") = 1
    /\ Count("REPORT") = 1
    /\ AttemptsOfKind("TENANT_NO_DATA")[1].bcc = <<TestAddr(1)>>
    /\ AttemptsOfKind("REPORT")[1].bcc = DEFAULT_EMAIL_TO_LIST

\* ---------------------------------------------------------------- C27
\* The tenant an attachment was collected for and the tenant an explicit
\* address was mapped to.
OwnerOfFile(att) == att.filename[1]
OwnedAddress(x) == x[1] \in {"dl", "test"}

\* C27: a REPORT notification for a tenant carries all the attachments
\* collected under that tenant's partitions and no other, and goes to the
\* tenant's explicit recipients or, when it has none, to the fallback list,
\* never to an address mapped to another tenant.
C27_OwnAttachmentsOwnRecipients ==
    \A k \in DOMAIN attempts :
        attempts[k].kind = "REPORT" =>
            LET m == attempts[k]
                T == m.agency
            IN /\ HasAttachments(T)
               /\ m.attachments = agency_attachments[T]
               /\ \A j \in DOMAIN m.attachments : OwnerOfFile(m.attachments[j]) = T.id
               /\ \A U \in Tenants \ {T} :
                     \A j \in DOMAIN m.attachments :
                        HasAttachments(U) => m.attachments[j] \notin Range(agency_attachments[U])
               /\ m.bcc # <<>>
               /\ m.bcc = (IF ExplicitList(T) # <<>> THEN ExplicitList(T)
                            ELSE DEFAULT_EMAIL_TO_LIST)
               /\ \A x \in Range(m.bcc) : OwnedAddress(x) => x[2] = T.id

C27_Witness ==
    /\ Count("REPORT") = 2
    /\ attempts[1].agency = Folder(2)
    /\ attempts[1].bcc = DEFAULT_EMAIL_TO_LIST
    /\ attempts[1].attachments # <<>>
    /\ attempts[2].bcc = <<ExplicitAddr(1)>>
    /\ ExplicitList(Folder(1)) # <<>>

\* ---------------------------------------------------------------- C28
ReturnedResult == pc = "done" /\ result # NoResult /\ error = "none"
AbortedWithError == pc = "aborted" /\ error # "none" /\ result = NoResult

\* C28: every run terminates, and it ends either with a returned result or
\* aborted with a fatal error, never in both and never in another way.
C28_Terminates ==
    /\ <>Terminated
    /\ [](Terminated => (ReturnedResult \/ AbortedWithError))
    /\ [][Terminated => UNCHANGED vars]_vars

C28_Witness ==
    /\ AbortedWithError
    /\ error = "storage error"
    /\ idx = 2
    /\ agencies_no_ranked # <<>>
    /\ attachment_keys # <<>>

\* ---------------------------------------------------------------- C29
SummaryOnlyFolders == {Folder(i) : i \in summary_only}

\* C29: an agency whose folder exists under the summary root alone is never
\* discovered, scanned, counted or notified, and is named in no notification.
C29_RankedRootOnly ==
    \A f \in SummaryOnlyFolders :
        /\ f \notin Tenants
        /\ f \notin DOMAIN agency_summary_text
        /\ f \notin DOMAIN agency_attachments
        /\ f \notin Range(agencies_no_ranked) \cup Range(agencies_no_summary)
        /\ \A k \in DOMAIN attempts :
              /\ attempts[k].agency # f
              /\ attempts[k].kind = "FALLBACK_NO_DATA_SUMMARY" =>
                    /\ normalize_agency_for_subject(f) \notin Range(attempts[k].body[1][2])
                    /\ agencies_no_summary # <<>> =>
                          normalize_agency_for_subject(f) \notin Range(attempts[k].body[2][2])
        /\ pc = "done" =>
              /\ result.agencies_total = Len(agencies)
              /\ result.agencies_total <= MaxAgencies - Cardinality(summary_only)

C29_Witness ==
    /\ pc = "done"
    /\ summary_only = {1}
    /\ ExplicitIn(TEST_EMAIL_MAP, Folder(1)) # <<>>
    /\ agencies = <<Folder(2)>>
    /\ result.status = "ok"
    /\ result.agencies_total = 1
    /\ Count("FALLBACK_NO_DATA_SUMMARY") = 1

\* ---------------------------------------------------------------- C30
\* The handler has resolved the date, and through resolve_start_date.
DateResolved == start_date # Unresolved
DateForced == TEST_MODE /\ TEST_START_DATE # EmptyStr
NoOverride ==
    event.start_date = NoneValue /\ event.mode = "None" /\ event.days_ago = NoneValue

\* C30: without start_date, mode and days_ago in the event resolve_start_date
\* returns the date 14 days before today on every weekday, the two default
\* branches agreeing on a Monday; a start_date given in the event is returned
\* whatever mode and days_ago say.
C30_DefaultIsFourteenDays ==
    (DateResolved /\ ~DateForced) =>
        /\ start_date = resolve_start_date(event, today)
        /\ NoOverride => start_date = <<"date", today[1] - 14>>
        /\ weekday(today) = 0 => monday_two_weeks_ago(today) = exact_days_ago(today, 14)
        /\ Truthy(event.start_date) => start_date = event.start_date

C30_Witness ==
    /\ DateResolved
    /\ ~DateForced
    /\ NoOverride
    /\ weekday(today) = 0
    /\ today[2] = 1
    /\ start_date = <<"date", FirstDay - 14>>

====
